---- MODULE Spec2Model ----
(***************************************************************************)
(* A model of the org2html markup engine: the metadata extractor, the      *)
(* lexer, the block and inline parser and the HTML renderer.               *)
(*                                                                         *)
(* A string of the program is a sequence of one-character strings.  The    *)
(* program's indices are 0-based and are kept 0-based here.                *)
(***************************************************************************)
EXTENDS Integers, Sequences, FiniteSets, TLC

VARIABLES
    pc,                 \* the function that runs, or where the run stands
    text,               \* the argument of a call of parseInlineMarkup on its own
    nodes,              \* the nodes that call returned
    lines,              \* content.split('\n'), the document handed to parse
    options,            \* the options handed to renderToHtml
    em,                 \* the locals of extractMetadata
    metadata,           \* the metadata extractMetadata returned
    contentStartLine,   \* the line index extractMetadata returned
    tokens,             \* the tokens tokenize returned
    pt,                 \* the locals of parseTokens: the cursor i and the nodes
    ast,                \* the children of the document parse returned
    rt,                 \* the locals of renderToHtml: the context, bodyHtml, the loop index
    out,                \* tocHtml, footnotesHtml and the html renderToHtml returned
    highlighter,        \* the highlighter of the process, shared by the calls of highlightCode
    hc,                 \* the calls of highlightCode: where each stands, its locals
    renders,            \* the calls of renderToHtml that run together: their locals
    watch               \* watchCommand: the watcher, the files and the runs of buildCommand

vars == <<pc, text, nodes, lines, options, em, metadata, contentStartLine, tokens, pt, ast,
          rt, out, highlighter, hc, renders, watch>>

----------------------------------------------------------------------------
(* Bounds of the model *)

\* the longest inline text, counted in pieces of InlinePieces
MaxPieces == 4

----------------------------------------------------------------------------
(* String primitives *)

Min(a, b) == IF a < b THEN a ELSE b
Max(a, b) == IF a > b THEN a ELSE b

\* text[i]; reading past the end gives undefined
CharAt(s, i) == IF i >= 0 /\ i < Len(s) THEN s[i + 1] ELSE "undefined"

\* s.substring(a, b)
substring(s, a, b) ==
    LET lo == Max(0, Min(Min(a, b), Len(s)))
        hi == Max(0, Min(Max(a, b), Len(s)))
    IN  SubSeq(s, lo + 1, hi)

\* s.indexOf(pat, from): the first index >= from where pat occurs, or -1
indexOf(s, pat, from) ==
    LET hits == {j \in Max(0, from)..(Len(s) - Len(pat)) :
                    SubSeq(s, j + 1, j + Len(pat)) = pat}
    IN  IF hits = {} THEN -1
        ELSE CHOOSE j \in hits : \A k \in hits : j <= k

\* s.split(sep), sep not empty
RECURSIVE split(_, _)
split(s, sep) ==
    LET at == indexOf(s, sep, 0)
    IN  IF at = -1 THEN <<s>>
        ELSE <<substring(s, 0, at)>> \o split(substring(s, at + Len(sep), Len(s)), sep)

\* the characters of s as one string
RECURSIVE AsString(_)
AsString(s) == IF s = <<>> THEN "" ELSE Head(s) \o AsString(Tail(s))

RECURSIVE Concat(_)
Concat(ss) == IF ss = <<>> THEN <<>> ELSE Head(ss) \o Concat(Tail(ss))

LowerLetters == <<"a","b","c","d","e","f","g","h","i","j","k","l","m",
                  "n","o","p","q","r","s","t","u","v","w","x","y","z">>
UpperLetters == <<"A","B","C","D","E","F","G","H","I","J","K","L","M",
                  "N","O","P","Q","R","S","T","U","V","W","X","Y","Z">>
Digits == {"0","1","2","3","4","5","6","7","8","9"}

Range(f) == {f[k] : k \in DOMAIN f}

toLowerCaseChar(c) ==
    IF \E k \in 1..26 : UpperLetters[k] = c
    THEN LowerLetters[CHOOSE k \in 1..26 : UpperLetters[k] = c] ELSE c
toUpperCaseChar(c) ==
    IF \E k \in 1..26 : LowerLetters[k] = c
    THEN UpperLetters[CHOOSE k \in 1..26 : LowerLetters[k] = c] ELSE c
toLowerCase(s) == [k \in 1..Len(s) |-> toLowerCaseChar(s[k])]
toUpperCase(s) == [k \in 1..Len(s) |-> toUpperCaseChar(s[k])]

\* \w and \s of the regular expressions
WordChars == Range(LowerLetters) \cup Range(UpperLetters) \cup Digits \cup {"_"}
SpaceChars == {" ", "\t"}
IsWordChar(c) == c \in WordChars
IsSpace(c) == c \in SpaceChars

endsWith(s, suf) == Len(s) >= Len(suf) /\ SubSeq(s, Len(s) - Len(suf) + 1, Len(s)) = suf
startsWith(s, pre) == Len(s) >= Len(pre) /\ SubSeq(s, 1, Len(pre)) = pre

----------------------------------------------------------------------------
(* AST node factory *)

NoProps == [k \in {} |-> 0]

createNode(type, properties, children) ==
    [type |-> type, value |-> <<>>, properties |-> properties, children |-> children]

createTextNode(value) ==
    [type |-> "text", value |-> value, properties |-> NoProps, children |-> <<>>]

----------------------------------------------------------------------------
(* Inline markup parser *)

ImageExtensions == {<<".","p","n","g">>, <<".","j","p","g">>, <<".","j","p","e","g">>,
                    <<".","g","i","f">>, <<".","s","v","g">>, <<".","w","e","b","p">>}

\* a test of the extension that tells upper case from lower case
IsImageUrlCaseSensitive(url) == \E ext \in ImageExtensions : endsWith(url, ext)

\* url.match(/\.(png|jpg|jpeg|gif|svg|webp)$/i)
IsImageUrl(url) == \E ext \in ImageExtensions : endsWith(toLowerCase(url), ext)

\* if (current) { nodes.push(createTextNode(current)); current = '' }
\* a flush that pushes nothing
FlushNothing(ns, current) == ns

Flush(ns, current) == IF current # <<>> THEN Append(ns, createTextNode(current)) ELSE ns

EmphasisType(marker) ==
    CASE marker = "*" -> "bold"
      [] marker = "/" -> "italic"
      [] marker = "_" -> "underline"
      [] marker = "~" -> "code"
      [] marker = "=" -> "verbatim"
      [] marker = "+" -> "strike"

EmphasisMarkers == {"*", "/", "_", "~", "=", "+"}

\* the node of a [[url]] or [[url][description]] span
LinkNode(linkContent) ==
    LET parts == split(linkContent, <<"]", "[">>)
        url == parts[1]
        description == IF Len(parts) >= 2 /\ parts[2] # <<>> THEN parts[2] ELSE url
    IN  IF IsImageUrl(url)
        THEN createNode("image", [src |-> url, alt |-> description], <<>>)
        ELSE createNode("link", [href |-> url], <<createTextNode(description)>>)

RECURSIVE parseInlineMarkup(_)

\* the locals of parseInlineMarkup
Scan(i, current, ns) == [i |-> i, current |-> current, nodes |-> ns]

\* one iteration of the while loop of parseInlineMarkup at index i
InlineIteration(s, i, current, ns) ==
    LET c == CharAt(s, i)
        flushed == Flush(ns, current)
    IN
    IF c \in EmphasisMarkers /\ CharAt(s, i + 1) # " " THEN
        LET end == indexOf(s, <<c>>, i + 1)
            content == substring(s, i + 1, end)
        IN  IF end # -1
            THEN Scan(end + 1, <<>>,
                    Append(flushed,
                        createNode(EmphasisType(c), NoProps,
                            IF c = "*" THEN parseInlineMarkup(content)
                            ELSE <<createTextNode(content)>>)))
            ELSE Scan(i + 1, <<c>>, flushed)
    ELSE IF substring(s, i, i + 2) = <<"[", "[">> THEN
        LET end == indexOf(s, <<"]", "]">>, i + 2)
        IN  IF end # -1
            THEN Scan(end + 2, <<>>, Append(flushed, LinkNode(substring(s, i + 2, end))))
            ELSE Scan(i + 1, <<c>>, flushed)
    ELSE IF substring(s, i, i + 4) = <<"[", "f", "n", ":">> THEN
        LET end == indexOf(s, <<"]">>, i + 4)
        IN  IF end # -1
            THEN Scan(end + 1, <<>>,
                    Append(flushed,
                        createNode("footnote", [ref |-> substring(s, i + 4, end)], <<>>)))
            ELSE Scan(i + 1, <<c>>, flushed)
    ELSE IF substring(s, i, i + 2) = <<"\\", "\\">> THEN
        Scan(i + 2, <<>>, Append(flushed, createNode("lineBreak", NoProps, <<>>)))
    ELSE Scan(i + 1, Append(current, c), ns)

\* the while loop of parseInlineMarkup from index i, and the final flush
RECURSIVE InlineScan(_, _, _, _)
InlineScan(s, i, current, ns) ==
    IF i >= Len(s) THEN Flush(ns, current)
    ELSE LET r == InlineIteration(s, i, current, ns)
         IN  InlineScan(s, r.i, r.current, r.nodes)

parseInlineMarkup(s) == InlineScan(s, 0, <<>>, <<>>)

----------------------------------------------------------------------------
(* Lexer *)

RECURSIVE trimStart(_)
trimStart(s) == IF s # <<>> /\ IsSpace(Head(s)) THEN trimStart(Tail(s)) ELSE s
RECURSIVE trimEnd(_)
trimEnd(s) ==
    IF s # <<>> /\ IsSpace(s[Len(s)]) THEN trimEnd(SubSeq(s, 1, Len(s) - 1)) ELSE s
trim(s) == trimEnd(trimStart(s))

\* the length of the longest run of characters of the set P that starts at index i
RECURSIVE RunLen(_, _, _)
RunLen(s, i, P) ==
    IF i < Len(s) /\ s[i + 1] \in P THEN 1 + RunLen(s, i + 1, P) ELSE 0

\* s matches /^prefix/i
startsWithIgnoreCase(s, pre) == startsWith(toUpperCase(s), toUpperCase(pre))

BEGIN_SRC == <<"#", "+", "B", "E", "G", "I", "N", "_", "S", "R", "C">>
END_SRC == <<"#", "+", "E", "N", "D", "_", "S", "R", "C">>
BEGIN_ == <<"#", "+", "B", "E", "G", "I", "N", "_">>
END_ == <<"#", "+", "E", "N", "D", "_">>

TokenTypes ==
    {"HEADING", "LIST_ITEM", "CODE_BLOCK_START", "CODE_BLOCK_END", "BLOCK_START",
     "BLOCK_END", "TABLE_ROW", "DRAWER_START", "DRAWER_END", "SHORTCODE", "PARAGRAPH",
     "BLANK", "TEXT"}

Token(type, value, line, indent, properties) ==
    [type |-> type, value |-> value, line |-> line, indent |-> indent,
     properties |-> properties]

\* trimmed.match(/^(\*+)\s+(.*)$/)
HeadingMatches(trimmed) ==
    LET n == RunLen(trimmed, 0, {"*"})
    IN  n >= 1 /\ RunLen(trimmed, n, SpaceChars) >= 1
HeadingLevel(trimmed) == RunLen(trimmed, 0, {"*"})
HeadingText(trimmed) ==
    LET n == RunLen(trimmed, 0, {"*"})
    IN  substring(trimmed, n + RunLen(trimmed, n, SpaceChars), Len(trimmed))

\* trimmed.match(/^#\+BEGIN_SRC\s+(\w+)/i)?.[1] || ''
SrcLanguage(trimmed) ==
    LET w == RunLen(trimmed, Len(BEGIN_SRC), SpaceChars)
        from == Len(BEGIN_SRC) + w
    IN  IF w >= 1 THEN substring(trimmed, from, from + RunLen(trimmed, from, WordChars))
        ELSE <<>>

\* trimmed.match(/^#\+BEGIN_(\w+)/i) and trimmed.match(/^#\+END_(\w+)/i)
BlockMarkerMatches(trimmed, marker) ==
    startsWithIgnoreCase(trimmed, marker) /\ RunLen(trimmed, Len(marker), WordChars) >= 1
BlockMarkerType(trimmed, marker) ==
    toUpperCase(substring(trimmed, Len(marker),
                          Len(marker) + RunLen(trimmed, Len(marker), WordChars)))

\* a drawer rule that leaves the line :END: to the rule after it
DrawerStartButEnd(trimmed) ==
    /\ Len(trimmed) >= 3
    /\ trimmed[1] = ":"
    /\ trimmed[Len(trimmed)] = ":"
    /\ \A k \in 2..(Len(trimmed) - 1) : IsWordChar(trimmed[k])
    /\ trimmed # <<":", "E", "N", "D", ":">>

\* trimmed.match(/^:(\w+):$/)
DrawerStartMatches(trimmed) ==
    /\ Len(trimmed) >= 3
    /\ trimmed[1] = ":"
    /\ trimmed[Len(trimmed)] = ":"
    /\ \A k \in 2..(Len(trimmed) - 1) : IsWordChar(trimmed[k])

\* trimmed.match(/^([-+*]|\d+[.)])\s+(.*)$/)
ListBulletLen(trimmed) ==
    LET d == RunLen(trimmed, 0, Digits)
    IN  IF CharAt(trimmed, 0) \in {"-", "+", "*"} THEN 1
        ELSE IF d >= 1 /\ CharAt(trimmed, d) \in {".", ")"} THEN d + 1
        ELSE 0
ListMatches(trimmed) ==
    ListBulletLen(trimmed) >= 1 /\ RunLen(trimmed, ListBulletLen(trimmed), SpaceChars) >= 1
ListOrdered(trimmed) == RunLen(trimmed, 0, Digits) >= 1
ListText(trimmed) ==
    LET b == ListBulletLen(trimmed)
    IN  substring(trimmed, b + RunLen(trimmed, b, SpaceChars), Len(trimmed))

\* trimmed.match(/^\{\{<\s*(\w+)(.*)>\}\}/)
ShortcodeNameStart(trimmed) == 3 + RunLen(trimmed, 3, SpaceChars)
ShortcodeMatches(trimmed) ==
    LET from == ShortcodeNameStart(trimmed)
        w == RunLen(trimmed, from, WordChars)
    IN  /\ startsWith(trimmed, <<"{", "{", "<">>)
        /\ w >= 1
        /\ indexOf(trimmed, <<">", "}", "}">>, from + w) # -1
ShortcodeComponent(trimmed) ==
    LET from == ShortcodeNameStart(trimmed)
    IN  substring(trimmed, from, from + RunLen(trimmed, from, WordChars))

\* the token of line i: the first rule that the trimmed line matches
tokenizeLine(line, i) ==
    LET trimmed == trim(line)
        indent == Len(line) - Len(trimStart(line))
    IN  IF trimmed = <<>> THEN Token("BLANK", <<>>, i, indent, NoProps)
        ELSE IF HeadingMatches(trimmed)
        THEN Token("HEADING", HeadingText(trimmed), i, indent,
                   [level |-> HeadingLevel(trimmed)])
        ELSE IF startsWithIgnoreCase(trimmed, BEGIN_SRC)
        THEN Token("CODE_BLOCK_START", <<>>, i, indent,
                   [language |-> SrcLanguage(trimmed)])
        ELSE IF startsWithIgnoreCase(trimmed, END_SRC)
        THEN Token("CODE_BLOCK_END", <<>>, i, indent, NoProps)
        ELSE IF BlockMarkerMatches(trimmed, BEGIN_)
        THEN Token("BLOCK_START", <<>>, i, indent,
                   [blockType |-> BlockMarkerType(trimmed, BEGIN_)])
        ELSE IF BlockMarkerMatches(trimmed, END_)
        THEN Token("BLOCK_END", <<>>, i, indent,
                   [blockType |-> BlockMarkerType(trimmed, END_)])
        ELSE IF DrawerStartMatches(trimmed)
        THEN Token("DRAWER_START", trimmed, i, indent,
                   [name |-> SubSeq(trimmed, 2, Len(trimmed) - 1)])
        ELSE IF trimmed = <<":", "E", "N", "D", ":">>
        THEN Token("DRAWER_END", <<>>, i, indent, NoProps)
        ELSE IF startsWith(trimmed, <<"|">>)
        THEN Token("TABLE_ROW", trimmed, i, indent, NoProps)
        ELSE IF ListMatches(trimmed)
        THEN Token("LIST_ITEM", ListText(trimmed), i, indent,
                   [ordered |-> ListOrdered(trimmed)])
        ELSE IF ShortcodeMatches(trimmed)
        THEN Token("SHORTCODE", trimmed, i, indent,
                   [component |-> ShortcodeComponent(trimmed)])
        ELSE Token("TEXT", line, i, indent, NoProps)

\* a tokenize that counts the lines from one
tokenizeFromOne(ls) == [k \in 1..Len(ls) |-> tokenizeLine(ls[k], k)]

\* tokenize(content), content given as its lines (content.split('\n'))
tokenize(ls) == [k \in 1..Len(ls) |-> tokenizeLine(ls[k], k - 1)]

----------------------------------------------------------------------------
(* Block parser *)

\* parts.join(sep)
RECURSIVE join(_, _)
join(parts, sep) ==
    IF parts = <<>> THEN <<>>
    ELSE IF Len(parts) = 1 THEN parts[1]
    ELSE parts[1] \o sep \o join(Tail(parts), sep)

NewLine == <<"\n">>

\* the first index >= from of a token whose type is in types, or tokens.length
FirstOfType(toks, from, types) ==
    LET hits == {j \in from..(Len(toks) - 1) : toks[j + 1].type \in types}
    IN  IF hits = {} THEN Len(toks) ELSE CHOOSE j \in hits : \A k \in hits : j <= k

\* the values of the tokens at the indices from..(to - 1)
ValuesBetween(toks, from, to) == [k \in 1..(to - from) |-> toks[from + k].value]

\* text.match(/^(.*?)\s+:([\w:]+):$/): the index where the tag suffix starts, or -1
TagSuffixStart(s) ==
    LET hits == {k \in 0..(Len(s) - 1) :
                    LET w == RunLen(s, k, SpaceChars)
                        q == k + w
                    IN  /\ w >= 1
                        /\ CharAt(s, q) = ":"
                        /\ Len(s) - (q + 1) >= 2
                        /\ s[Len(s)] = ":"
                        /\ \A j \in (q + 2)..Len(s) : s[j] \in WordChars \cup {":"}}
    IN  IF hits = {} THEN -1 ELSE CHOOSE k \in hits : \A j \in hits : k <= j

\* tagMatch[2].split(':').filter(Boolean)
HeadingTags(s) ==
    LET k == TagSuffixStart(s)
        q == k + RunLen(s, k, SpaceChars)
        nonEmpty(t) == t # <<>>
    IN  IF k = -1 THEN <<>>
        ELSE SelectSeq(split(substring(s, q + 1, Len(s) - 1), <<":">>), nonEmpty)

parseHeading(token) ==
    LET level == IF token.properties.level = 0 THEN 1 ELSE token.properties.level
        k == TagSuffixStart(token.value)
        content == IF k = -1 THEN token.value ELSE substring(token.value, 0, k)
    IN  createNode("heading", [level |-> level, tags |-> HeadingTags(token.value)],
                   parseInlineMarkup(content))

parseCodeBlock(toks, startIndex) ==
    LET i == FirstOfType(toks, startIndex + 1, {"CODE_BLOCK_END"})
        codeLines == ValuesBetween(toks, startIndex + 1, i)
    IN  [push |-> <<createNode("codeBlock",
                       [language |-> toks[startIndex + 1].properties.language],
                       <<createTextNode(join(codeLines, NewLine))>>)>>,
         endIndex |-> i]

QUOTE == <<"Q", "U", "O", "T", "E">>
EXAMPLE == <<"E", "X", "A", "M", "P", "L", "E">>
VERSE == <<"V", "E", "R", "S", "E">>
CENTER == <<"C", "E", "N", "T", "E", "R">>

parseBlock(toks, startIndex) ==
    LET blockType == toks[startIndex + 1].properties.blockType
        i == FirstOfType(toks, startIndex + 1, {"BLOCK_END"})
        content == join(ValuesBetween(toks, startIndex + 1, i), NewLine)
        nodeType == IF blockType = QUOTE THEN "quote"
                    ELSE IF blockType = EXAMPLE THEN "example"
                    ELSE IF blockType = VERSE THEN "verse"
                    ELSE IF blockType = CENTER THEN "center"
                    ELSE "quote"
    IN  [push |-> <<createNode(nodeType, NoProps, parseInlineMarkup(content))>>,
         endIndex |-> i]

\* rowValue.match(/^\|[-+:| ]+\|$/)
\* a separator test that knows rows of dashes and bars only
IsSeparatorRowOfDashes(rowValue) ==
    /\ Len(rowValue) >= 3
    /\ rowValue[1] = "|"
    /\ rowValue[Len(rowValue)] = "|"
    /\ \A k \in 2..(Len(rowValue) - 1) : rowValue[k] \in {"-", "|"}

\* rowValue.match(/^\|[-+:| ]+\|$/)
IsSeparatorRow(rowValue) ==
    /\ Len(rowValue) >= 3
    /\ rowValue[1] = "|"
    /\ rowValue[Len(rowValue)] = "|"
    /\ \A k \in 2..(Len(rowValue) - 1) : rowValue[k] \in {"-", "+", ":", "|", " "}

\* rowValue.split('|').slice(1, -1).map((cell) => cell.trim())
RowCells(rowValue) ==
    LET parts == split(rowValue, <<"|">>)
    IN  [k \in 1..(Len(parts) - 2) |-> trim(parts[k + 1])]

parseTableRow(rowValue) ==
    LET cells == RowCells(rowValue)
    IN  createNode("tableRow", NoProps,
            [k \in 1..Len(cells) |-> createNode("tableCell", NoProps, parseInlineMarkup(cells[k]))])

parseTable(toks, startIndex) ==
    LET i == FirstOfType(toks, startIndex, TokenTypes \ {"TABLE_ROW"})
        isData(v) == ~IsSeparatorRow(v)
        dataRows == SelectSeq(ValuesBetween(toks, startIndex, i), isData)
    IN  [push |-> <<createNode("table", NoProps,
                       [k \in 1..Len(dataRows) |-> parseTableRow(dataRows[k])])>>,
         endIndex |-> i - 1]

\* a list that goes on with the list items of any indent
RECURSIVE ListEndAnyIndent(_, _, _)
ListEndAnyIndent(toks, i, baseIndent) ==
    IF i < Len(toks) /\ toks[i + 1].type = "LIST_ITEM"
    THEN ListEndAnyIndent(toks, i + 1, baseIndent)
    ELSE i

\* the first index >= from of a token that does not continue the list, or tokens.length
RECURSIVE ListEnd(_, _, _)
ListEnd(toks, i, baseIndent) ==
    IF i < Len(toks) /\ toks[i + 1].type = "LIST_ITEM" /\ toks[i + 1].indent = baseIndent
    THEN ListEnd(toks, i + 1, baseIndent)
    ELSE i

parseList(toks, startIndex) ==
    LET ordered == toks[startIndex + 1].properties.ordered
        baseIndent == toks[startIndex + 1].indent
        i == ListEnd(toks, startIndex, baseIndent)
        values == ValuesBetween(toks, startIndex, i)
    IN  [push |-> <<createNode("list", [ordered |-> ordered],
                       [k \in 1..Len(values) |->
                          createNode("listItem", NoProps, parseInlineMarkup(values[k]))])>>,
         endIndex |-> i - 1]

PROPERTIES == <<"P", "R", "O", "P", "E", "R", "T", "I", "E", "S">>

\* a drawer parser that hands back the index before its opener
parseDrawerBehind(toks, startIndex) ==
    [push |-> <<createNode("drawer", [name |-> toks[startIndex + 1].properties.name], <<>>)>>,
     endIndex |-> startIndex - 1]

\* nothing is pushed for a PROPERTIES drawer (node: null)
parseDrawer(toks, startIndex) ==
    LET drawerName == toks[startIndex + 1].properties.name
        i == FirstOfType(toks, startIndex + 1, {"DRAWER_END"})
        contentLines == ValuesBetween(toks, startIndex + 1, i)
    IN  IF drawerName = PROPERTIES
        THEN [push |-> <<>>, endIndex |-> i]
        ELSE [push |-> <<createNode("drawer", [name |-> drawerName],
                            <<createTextNode(join(contentLines, NewLine))>>)>>,
              endIndex |-> i]

\* attrsString.matchAll(/(\w+)="([^"]*)"/g), later values of a key replacing earlier ones
RECURSIVE ShortcodeAttrs(_, _, _)
ShortcodeAttrs(s, from, attrs) ==
    LET hits == {p \in from..(Len(s) - 1) :
                    LET e == p + RunLen(s, p, WordChars)
                    IN  /\ e > p
                        /\ substring(s, e, e + 2) = <<"=", "\"">>
                        /\ indexOf(s, <<"\"">>, e + 2) # -1}
    IN  IF hits = {} THEN attrs
        ELSE LET p == CHOOSE p \in hits : \A k \in hits : p <= k
                 e == p + RunLen(s, p, WordChars)
                 q == indexOf(s, <<"\"">>, e + 2)
                 key == substring(s, p, e)
                 val == substring(s, e + 2, q)
                 set == IF \E k \in 1..Len(attrs) : attrs[k].key = key
                        THEN [k \in 1..Len(attrs) |->
                                IF attrs[k].key = key THEN [key |-> key, value |-> val]
                                ELSE attrs[k]]
                        ELSE Append(attrs, [key |-> key, value |-> val])
             IN  ShortcodeAttrs(s, q + 1, set)

\* token.value.match(/\{\{<\s*(\w+)(.*?)>\}\}/)
parseShortcode(token) ==
    LET v == token.value
        at == indexOf(v, <<"{", "{", "<">>, 0)
        from == at + 3 + RunLen(v, at + 3, SpaceChars)
        w == RunLen(v, from, WordChars)
        close == indexOf(v, <<">", "}", "}">>, from + w)
    IN  IF at = -1 \/ w = 0 \/ close = -1 THEN createTextNode(v)
        ELSE createNode("shortcode",
                 [component |-> substring(v, from, from + w),
                  attrs |-> ShortcodeAttrs(trim(substring(v, from + w, close)), 0, <<>>)],
                 <<>>)

parseParagraph(toks, startIndex) ==
    LET i == FirstOfType(toks, startIndex, TokenTypes \ {"TEXT"})
        values == ValuesBetween(toks, startIndex, i)
        content == join([k \in 1..Len(values) |-> trim(values[k])], <<" ">>)
    IN  [push |-> <<createNode("paragraph", NoProps, parseInlineMarkup(content))>>,
         endIndex |-> i - 1]

\* one iteration of the while loop of parseTokens at cursor i: the node to push
\* (none for a BLANK, a stray end marker or a PROPERTIES drawer) and the index of
\* the last token consumed
Dispatch(toks, i) ==
    LET token == toks[i + 1]
        type == token.type
    IN  CASE type = "HEADING" -> [push |-> <<parseHeading(token)>>, endIndex |-> i]
          [] type = "CODE_BLOCK_START" -> parseCodeBlock(toks, i)
          [] type = "BLOCK_START" -> parseBlock(toks, i)
          [] type = "TABLE_ROW" -> parseTable(toks, i)
          [] type = "LIST_ITEM" -> parseList(toks, i)
          [] type = "DRAWER_START" -> parseDrawer(toks, i)
          [] type = "SHORTCODE" -> [push |-> <<parseShortcode(token)>>, endIndex |-> i]
          [] type = "TEXT" -> parseParagraph(toks, i)
          [] OTHER -> [push |-> <<>>, endIndex |-> i]

----------------------------------------------------------------------------
(* Metadata extractor *)

\* objects used as maps: a function whose domain is the set of keys present
EmptyMap == [k \in {} |-> 0]
Put(m, k, v) == [x \in (DOMAIN m) \cup {k} |-> IF x = k THEN v ELSE m[x]]
\* { ...m, ...n }
Merge(m, n) == [x \in (DOMAIN m) \cup (DOMAIN n) |-> IF x \in DOMAIN n THEN n[x] ELSE m[x]]

\* the values of an option: booleans, numbers (NaN among them) and strings
Bool(b) == [t |-> "boolean", b |-> b]
Num(n) == [t |-> "number", nan |-> FALSE, n |-> n]
NaN == [t |-> "number", nan |-> TRUE, n |-> 0]
Str(v) == [t |-> "string", s |-> v]

DigitSeq == <<"0", "1", "2", "3", "4", "5", "6", "7", "8", "9">>
DigitValue(c) == (CHOOSE k \in 1..10 : DigitSeq[k] = c) - 1
RECURSIVE DecimalValue(_)
DecimalValue(ds) ==
    IF ds = <<>> THEN 0 ELSE 10 * DecimalValue(SubSeq(ds, 1, Len(ds) - 1)) + DigitValue(ds[Len(ds)])

\* Number.parseInt(value, 10)
parseInt(value) ==
    LET v == trimStart(value)
        signed == CharAt(v, 0) \in {"+", "-"}
        from == IF signed THEN 1 ELSE 0
        d == RunLen(v, from, Digits)
        magnitude == DecimalValue(substring(v, from, from + d))
    IN  IF d = 0 THEN NaN
        ELSE Num(IF CharAt(v, 0) = "-" THEN 0 - magnitude ELSE magnitude)

NIL == <<"n", "i", "l">>
T == <<"t">>

\* the field an option key is stored under, and its value
OptionField(key) ==
    LET k == toLowerCase(key)
    IN  CASE k = <<"t", "o", "c">> -> "toc"
          [] k = <<"n", "u", "m">> -> "num"
          [] k = <<"d", "a", "t", "e">> -> "date"
          [] k = <<"h">> -> "H"
          [] k = <<"a", "u", "t", "h", "o", "r">> -> "author"
          [] k = <<"e", "m", "a", "i", "l">> -> "email"
          [] k = <<"t", "i", "t", "l", "e">> -> "title"
          [] k = <<"_">> -> "subscript"
          [] k = <<"t", "e", "x">> -> "tex"
          [] OTHER -> AsString(key)
OptionValue(key, value) ==
    LET k == toLowerCase(key)
    IN  IF k = <<"t", "o", "c">>
        THEN (IF value = NIL THEN Bool(FALSE) ELSE IF value = T THEN Bool(TRUE)
              ELSE parseInt(value))
        ELSE IF k \in {<<"n", "u", "m">>, <<"d", "a", "t", "e">>,
                       <<"a", "u", "t", "h", "o", "r">>, <<"e", "m", "a", "i", "l">>,
                       <<"t", "i", "t", "l", "e">>, <<"_">>, <<"t", "e", "x">>}
        THEN Bool(value # NIL)
        ELSE IF k = <<"h">> THEN parseInt(value)
        ELSE (IF value = NIL THEN Bool(FALSE) ELSE IF value = T THEN Bool(TRUE)
              ELSE Str(value))

NonSpaceRunLen(s, i) ==
    LET stops == {j \in i..(Len(s) - 1) : s[j + 1] \in SpaceChars}
    IN  IF stops = {} THEN Len(s) - i ELSE (CHOOSE j \in stops : \A k \in stops : j <= k) - i

\* optionsString.match(/(\w+):(\S+)/g), each part split on ":" and stored in turn
RECURSIVE parseOptionsFrom(_, _, _)
parseOptionsFrom(s, from, opts) ==
    LET hits == {p \in from..(Len(s) - 1) :
                    LET e == p + RunLen(s, p, WordChars)
                    IN  e > p /\ CharAt(s, e) = ":" /\ NonSpaceRunLen(s, e + 1) >= 1}
    IN  IF hits = {} THEN opts
        ELSE LET p == CHOOSE p \in hits : \A k \in hits : p <= k
                 e == p + RunLen(s, p, WordChars)
                 stop == e + 1 + NonSpaceRunLen(s, e + 1)
                 pieces == split(substring(s, p, stop), <<":">>)
                 key == pieces[1]
                 value == pieces[2]
             IN  parseOptionsFrom(s, stop,
                                  Put(opts, OptionField(key), OptionValue(key, value)))

parseOptions(optionsString) == parseOptionsFrom(optionsString, 0, EmptyMap)

\* value.match(/:(\w+)/g), each without its colon
RECURSIVE parseFileTagsFrom(_, _)
parseFileTagsFrom(s, from) ==
    LET hits == {p \in from..(Len(s) - 1) : s[p + 1] = ":" /\ RunLen(s, p + 1, WordChars) >= 1}
    IN  IF hits = {} THEN <<>>
        ELSE LET p == CHOOSE p \in hits : \A k \in hits : p <= k
                 w == RunLen(s, p + 1, WordChars)
             IN  <<substring(s, p + 1, p + 1 + w)>> \o parseFileTagsFrom(s, p + 1 + w)

parseFileTags(value) == parseFileTagsFrom(value, 0)

\* the keys the switch of extractMetadata stores in a field of their own
ScalarKeys ==
    <<[key |-> <<"T", "I", "T", "L", "E">>, field |-> "title"],
      [key |-> <<"A", "U", "T", "H", "O", "R">>, field |-> "author"],
      [key |-> <<"D", "A", "T", "E">>, field |-> "date"],
      [key |-> <<"E", "M", "A", "I", "L">>, field |-> "email"],
      [key |-> <<"D", "E", "S", "C", "R", "I", "P", "T", "I", "O", "N">>, field |-> "description"],
      [key |-> <<"L", "A", "N", "G", "U", "A", "G", "E">>, field |-> "language"],
      [key |-> <<"C", "A", "T", "E", "G", "O", "R", "Y">>, field |-> "category"],
      [key |-> <<"C", "A", "N", "O", "N", "I", "C", "A", "L">>, field |-> "canonical"],
      [key |-> <<"C", "O", "V", "E", "R", "_", "I", "M", "A", "G", "E">>, field |-> "coverImage"],
      [key |-> <<"O", "G", "_", "I", "M", "A", "G", "E">>, field |-> "ogImage"],
      [key |-> <<"O", "G", "_", "T", "I", "T", "L", "E">>, field |-> "ogTitle"],
      [key |-> <<"O", "G", "_", "D", "E", "S", "C", "R", "I", "P", "T", "I", "O", "N">>, field |-> "ogDescription"],
      [key |-> <<"O", "G", "_", "T", "Y", "P", "E">>, field |-> "ogType"],
      [key |-> <<"T", "W", "I", "T", "T", "E", "R", "_", "C", "A", "R", "D">>, field |-> "twitterCard"],
      [key |-> <<"T", "W", "I", "T", "T", "E", "R", "_", "S", "I", "T", "E">>, field |-> "twitterSite"],
      [key |-> <<"T", "W", "I", "T", "T", "E", "R", "_", "C", "R", "E", "A", "T", "O", "R">>, field |-> "twitterCreator"],
      [key |-> <<"T", "H", "E", "M", "E", "_", "C", "O", "L", "O", "R">>, field |-> "themeColor"],
      [key |-> <<"R", "O", "B", "O", "T", "S">>, field |-> "robots"]>>

KEYWORDS == <<"K", "E", "Y", "W", "O", "R", "D", "S">>
FILETAGS == <<"F", "I", "L", "E", "T", "A", "G", "S">>
OPTIONS == <<"O", "P", "T", "I", "O", "N", "S">>

\* line.match(/^#\+(\w+):\s*(.*)$/i)
MetaMatches(line) ==
    LET w == RunLen(line, 2, WordChars)
    IN  startsWith(line, <<"#", "+">>) /\ w >= 1 /\ CharAt(line, 2 + w) = ":"
MetaKey(line) == toUpperCase(substring(line, 2, 2 + RunLen(line, 2, WordChars)))
MetaValue(line) == trim(substring(line, 3 + RunLen(line, 2, WordChars), Len(line)))

\* line.match(/^:(\w+):\s*(.*)$/)
PropMatches(line) ==
    LET w == RunLen(line, 1, WordChars)
    IN  startsWith(line, <<":">>) /\ w >= 1 /\ CharAt(line, 1 + w) = ":"
PropKey(line) == substring(line, 1, 1 + RunLen(line, 1, WordChars))
PropValue(line) == trimStart(substring(line, 2 + RunLen(line, 1, WordChars), Len(line)))

\* the metadata a document starts with; the fields derived later (slug, reading
\* time, word count, excerpt) are written once and read by no part of the engine
\* modelled here, and are left out
InitialMetadata ==
    [fields |-> EmptyMap, options |-> EmptyMap, properties |-> EmptyMap,
     tags |-> <<>>, keywords |-> <<>>]

\* the switch on the key of a #+KEY: value line
StoreMeta(md, key, value) ==
    IF \E k \in 1..Len(ScalarKeys) : ScalarKeys[k].key = key
    THEN LET k == CHOOSE k \in 1..Len(ScalarKeys) : ScalarKeys[k].key = key
         IN  [md EXCEPT !.fields = Put(@, ScalarKeys[k].field, value)]
    ELSE IF key = KEYWORDS
    THEN LET parts == split(value, <<",">>)
         IN  [md EXCEPT !.keywords = [k \in 1..Len(parts) |-> trim(parts[k])]]
    ELSE IF key = FILETAGS THEN [md EXCEPT !.tags = parseFileTags(value)]
    ELSE IF key = OPTIONS
    THEN [md EXCEPT !.options = Merge(@, parseOptions(value))]
    ELSE [md EXCEPT !.properties = Put(@, key, value)]

PROPERTIES_LINE == <<":">> \o PROPERTIES \o <<":">>
END_LINE == <<":", "E", "N", "D", ":">>

\* the locals of extractMetadata when it is called
ExtractStart ==
    [i |-> 0, inPropertyDrawer |-> FALSE, propertyDrawerProps |-> EmptyMap,
     metadata |-> InitialMetadata]

\* the loop of extractMetadata is left: the lines are used up, or the line at i
\* reaches the break
ExtractStops(ls, st) ==
    IF st.i >= Len(ls) THEN TRUE
    ELSE LET line == trim(ls[st.i + 1])
         IN  /\ line # PROPERTIES_LINE
             /\ ~(line = END_LINE /\ st.inPropertyDrawer)
             /\ ~st.inPropertyDrawer
             /\ ~MetaMatches(line)
             /\ line # <<>> /\ ~startsWith(line, <<"#">>) /\ ~startsWith(line, <<":">>)

\* one iteration of the while loop of extractMetadata that consumes line i
ExtractIteration(ls, st) ==
    LET line == trim(ls[st.i + 1])
        next == [st EXCEPT !.i = @ + 1]
    IN  IF line = PROPERTIES_LINE
        THEN [next EXCEPT !.inPropertyDrawer = TRUE]
        ELSE IF line = END_LINE /\ st.inPropertyDrawer
        THEN [next EXCEPT !.inPropertyDrawer = FALSE,
                          !.metadata.properties = Merge(@, st.propertyDrawerProps)]
        ELSE IF st.inPropertyDrawer
        THEN (IF PropMatches(line)
              THEN [next EXCEPT !.propertyDrawerProps = Put(@, PropKey(line), PropValue(line))]
              ELSE next)
        ELSE IF MetaMatches(line)
        THEN [next EXCEPT !.metadata = StoreMeta(@, MetaKey(line), MetaValue(line))]
        ELSE next

----------------------------------------------------------------------------
(* HTML renderer *)

(* The HTML the renderer builds is kept as the sequence of its tags and text    *)
(* runs; Serialize gives the string.  The text of a run is a sequence of        *)
(* strings (characters, entities or literal chunks of a template).              *)
Attr(name, value) == [name |-> name, value |-> value]
Open(tag, attrs) == [k |-> "open", tag |-> tag, attrs |-> attrs, s |-> <<>>]
Close(tag) == [k |-> "close", tag |-> tag, attrs |-> <<>>, s |-> <<>>]
Chars(s) == [k |-> "text", tag |-> "", attrs |-> <<>>, s |-> s]
NL == Chars(<<"\n">>)

RECURSIVE SerializeAttrs(_)
SerializeAttrs(attrs) ==
    IF attrs = <<>> THEN ""
    ELSE " " \o Head(attrs).name \o "=\"" \o AsString(Head(attrs).value) \o "\""
         \o SerializeAttrs(Tail(attrs))

RECURSIVE Serialize(_)
Serialize(html) ==
    IF html = <<>> THEN ""
    ELSE LET e == Head(html)
             one == CASE e.k = "open" -> "<" \o e.tag \o SerializeAttrs(e.attrs) \o ">"
                      [] e.k = "close" -> "</" \o e.tag \o ">"
                      [] OTHER -> AsString(e.s)
         IN  one \o Serialize(Tail(html))

\* escapeHtml of the renderer: & < > " '
escapeHtmlChar(c) ==
    CASE c = "&" -> <<"&amp;">>
      [] c = "<" -> <<"&lt;">>
      [] c = ">" -> <<"&gt;">>
      [] c = "\"" -> <<"&quot;">>
      [] c = "'" -> <<"&#039;">>
      [] OTHER -> <<c>>
escapeHtml(s) == Concat([k \in 1..Len(s) |-> escapeHtmlChar(s[k])])

\* escapeHtml of the TOC plugin and of the highlighter: & < >
escapeHtmlBasic(s) ==
    Concat([k \in 1..Len(s) |-> IF s[k] \in {"\"", "'"} THEN <<s[k]>> ELSE escapeHtmlChar(s[k])])

\* text.replace(/x+/g, ...): runs of characters of the set P collapsed to rep
RECURSIVE CollapseRuns(_, _, _)
CollapseRuns(s, P, rep) ==
    IF s = <<>> THEN <<>>
    ELSE IF Head(s) \in P
    THEN <<rep>> \o CollapseRuns(SubSeq(s, 1 + RunLen(s, 0, P), Len(s)), P, rep)
    ELSE <<Head(s)>> \o CollapseRuns(Tail(s), P, rep)

\* slugify of the renderer
slugify(s) ==
    LET lower == toLowerCase(s)
        keep(c) == c \in WordChars \cup SpaceChars \cup {"-"}
        kept == SelectSeq(lower, keep)
    IN  trim(CollapseRuns(CollapseRuns(kept, SpaceChars, "-"), {"-"}, "-"))

RECURSIVE renderChildrenSync(_)
renderChildrenSync(node) ==
    LET one(child) ==
            IF child.type = "text" THEN <<Chars(escapeHtml(child.value))>>
            ELSE IF child.type = "bold"
            THEN <<Open("strong", <<>>)>> \o renderChildrenSync(child) \o <<Close("strong")>>
            ELSE IF child.type = "italic"
            THEN <<Open("em", <<>>)>> \o renderChildrenSync(child) \o <<Close("em")>>
            ELSE IF child.type = "code"
            THEN <<Open("code", <<>>)>> \o renderChildrenSync(child) \o <<Close("code")>>
            ELSE IF child.type = "link"
            THEN <<Open("a", <<Attr("href", escapeHtml(child.properties.href))>>)>>
                 \o renderChildrenSync(child) \o <<Close("a")>>
            ELSE renderChildrenSync(child)
    IN  Concat([k \in 1..Len(node.children) |-> one(node.children[k])])

\* (node.children ?? []).map((c) => String(c.value ?? '')).join('')
HeadingOwnText(node) == Concat([k \in 1..Len(node.children) |-> node.children[k].value])

HeadingTag(level) == "h" \o ToString(level)

\* a renderHeading that takes the level of the node as it is
RenderedLevelUnclamped(node) == node.properties.level

\* Math.min(Number(node.properties?.level ?? 1), 6)
RenderedLevel(node) == Min(node.properties.level, 6)

\* renderHeading: the HTML, and the context with the heading recorded
renderHeading(node, ctx) ==
    LET level == RenderedLevel(node)
        txt == HeadingOwnText(node)
        id == slugify(txt)
    IN  [html |-> <<Open(HeadingTag(level), <<Attr("id", escapeHtml(id))>>)>>
                  \o renderChildrenSync(node) \o <<Close(HeadingTag(level)), NL>>,
         ctx |-> [ctx EXCEPT !.headings =
                    Append(@, [level |-> level, text |-> txt, id |-> id])]]

\* a renderParagraph that does not end the paragraph with a line feed
renderParagraphNoLineFeed(node) ==
    <<Open("p", <<>>)>> \o renderChildrenSync(node) \o <<Close("p")>>

renderParagraph(node) ==
    <<Open("p", <<>>)>> \o renderChildrenSync(node) \o <<Close("p"), NL>>

renderLink(node) ==
    <<Open("a", <<Attr("href", escapeHtml(node.properties.href))>>)>>
    \o renderChildrenSync(node) \o <<Close("a")>>

renderImage(node) ==
    <<Open("img", <<Attr("src", escapeHtml(node.properties.src)),
                    Attr("alt", escapeHtml(node.properties.alt))>>)>>

\* context.footnotes.set(ref, content): a Map keeps the order of first insertion
MapSet(m, key, value) ==
    IF \E k \in 1..Len(m) : m[k].key = key
    THEN [k \in 1..Len(m) |-> IF m[k].key = key THEN [key |-> key, value |-> value] ELSE m[k]]
    ELSE Append(m, [key |-> key, value |-> value])

renderFootnote(node, ctx) ==
    LET ref == node.properties.ref
        num == ctx.footnoteCounter
    IN  [html |-> <<Open("sup", <<Attr("id", <<"fnref-">> \o escapeHtml(ref))>>),
                    Open("a", <<Attr("href", <<"#fn-">> \o escapeHtml(ref))>>),
                    Chars(<<ToString(num)>>), Close("a"), Close("sup")>>,
         ctx |-> [ctx EXCEPT !.footnoteCounter = @ + 1,
                             !.footnotes = MapSet(@, ref, <<"Footnote ">> \o escapeHtml(ref))]]

renderShortcode(node) ==
    LET attrs == node.properties.attrs
    IN  <<Open("div", <<Attr("data-component", escapeHtml(node.properties.component))>>
                      \o [k \in 1..Len(attrs) |->
                            Attr(AsString(escapeHtml(attrs[k].key)), escapeHtml(attrs[k].value))]),
          Close("div"), NL>>

\* the languages the highlighter is created with, and 'text'
HighlighterLangs ==
    {"javascript", "typescript", "python", "rust", "go", "java", "html", "css", "json",
     "markdown", "text"}

\* highlightCode: the highlighter's markup around the code, or the escaped
\* <pre><code> fallback when the highlighter rejects the language
highlightCode(code, language) ==
    LET lang == IF language = <<>> THEN "text" ELSE AsString(language)
    IN  IF lang \in HighlighterLangs
        THEN <<Open("pre", <<Attr("class", <<"shiki">>)>>), Open("code", <<>>),
               Chars(escapeHtmlBasic(code)), Close("code"), Close("pre")>>
        ELSE <<Open("pre", <<>>), Open("code", <<>>), Chars(escapeHtmlBasic(code)),
               Close("code"), Close("pre")>>

renderCodeBlock(node, ctx) ==
    LET language == node.properties.language
        code == IF node.children = <<>> THEN <<>> ELSE node.children[1].value
        cls == <<"language-">> \o escapeHtml(language)
    IN  <<Open("pre", <<>>), Open("code", <<Attr("class", cls)>>)>>
        \o (IF ctx.options.codeHighlight THEN highlightCode(code, language)
            ELSE <<Chars(escapeHtml(code))>>)
        \o <<Close("code"), Close("pre"), NL>>

RECURSIVE renderNode(_, _)
RECURSIVE renderChildren(_, _, _)

\* the loop of renderChildren from child k on: the HTML, and the context after it
renderChildren(node, k, ctx) ==
    IF k > Len(node.children) THEN [html |-> <<>>, ctx |-> ctx]
    ELSE LET first == renderNode(node.children[k], ctx)
             rest == renderChildren(node, k + 1, first.ctx)
         IN  [html |-> first.html \o rest.html, ctx |-> rest.ctx]

\* the children of node between an opening and a closing run of HTML
Wrapped(before, node, after, ctx) ==
    LET r == renderChildren(node, 1, ctx)
    IN  [html |-> before \o r.html \o after, ctx |-> r.ctx]

renderNode(node, ctx) ==
    LET type == node.type
        pure(html) == [html |-> html, ctx |-> ctx]
    IN  CASE type = "heading" -> renderHeading(node, ctx)
          [] type = "paragraph" -> pure(renderParagraph(node))
          [] type = "list" ->
                LET tag == IF node.properties.ordered THEN "ol" ELSE "ul"
                IN  Wrapped(<<Open(tag, <<>>), NL>>, node, <<Close(tag), NL>>, ctx)
          [] type = "listItem" -> Wrapped(<<Open("li", <<>>)>>, node, <<Close("li"), NL>>, ctx)
          [] type = "table" ->
                Wrapped(<<Open("table", <<>>), NL, Open("tbody", <<>>), NL>>, node,
                        <<Close("tbody"), NL, Close("table"), NL>>, ctx)
          [] type = "tableRow" ->
                Wrapped(<<Open("tr", <<>>), NL>>, node, <<Close("tr"), NL>>, ctx)
          [] type = "tableCell" -> Wrapped(<<Open("td", <<>>)>>, node, <<Close("td"), NL>>, ctx)
          [] type = "codeBlock" -> pure(renderCodeBlock(node, ctx))
          [] type = "quote" ->
                Wrapped(<<Open("blockquote", <<>>), NL>>, node, <<Close("blockquote"), NL>>, ctx)
          [] type = "example" ->
                Wrapped(<<Open("pre", <<Attr("class", <<"example">>)>>)>>, node,
                        <<Close("pre"), NL>>, ctx)
          [] type = "verse" ->
                Wrapped(<<Open("p", <<Attr("class", <<"verse">>)>>)>>, node,
                        <<Close("p"), NL>>, ctx)
          [] type = "center" ->
                Wrapped(<<Open("div", <<Attr("class", <<"center">>)>>)>>, node,
                        <<Close("div"), NL>>, ctx)
          [] type = "shortcode" -> pure(renderShortcode(node))
          [] type = "bold" -> Wrapped(<<Open("strong", <<>>)>>, node, <<Close("strong")>>, ctx)
          [] type = "italic" -> Wrapped(<<Open("em", <<>>)>>, node, <<Close("em")>>, ctx)
          [] type = "underline" -> Wrapped(<<Open("u", <<>>)>>, node, <<Close("u")>>, ctx)
          [] type = "code" -> Wrapped(<<Open("code", <<>>)>>, node, <<Close("code")>>, ctx)
          [] type = "verbatim" ->
                Wrapped(<<Open("code", <<Attr("class", <<"verbatim">>)>>)>>, node,
                        <<Close("code")>>, ctx)
          [] type = "strike" -> Wrapped(<<Open("del", <<>>)>>, node, <<Close("del")>>, ctx)
          [] type = "link" -> pure(renderLink(node))
          [] type = "image" -> pure(renderImage(node))
          [] type = "footnote" -> renderFootnote(node, ctx)
          [] type = "lineBreak" -> pure(<<Open("br", <<>>)>>)
          [] type = "text" -> pure(<<Chars(escapeHtml(node.value))>>)
          [] OTHER -> pure(<<>>)

----------------------------------------------------------------------------
(* Table of contents, sanitizer, renderToHtml *)

Repeat(e, n) == [k \in 1..n |-> e]

\* a generateToc that skips no heading
ExceedsNever(level, maxDepth) == FALSE

\* heading.level > maxDepth, false when maxDepth is NaN
Exceeds(level, maxDepth) == ~maxDepth.nan /\ level > maxDepth.n

\* the for loop of generateToc from heading k on
RECURSIVE generateTocFrom(_, _, _, _, _)
generateTocFrom(headings, k, maxDepth, currentLevel, html) ==
    IF k > Len(headings) THEN [html |-> html, currentLevel |-> currentLevel]
    ELSE LET heading == headings[k]
         IN  IF Exceeds(heading.level, maxDepth)
             THEN generateTocFrom(headings, k + 1, maxDepth, currentLevel, html)
             ELSE generateTocFrom(headings, k + 1, maxDepth, heading.level,
                    html \o Repeat(Open("ul", <<>>), Max(0, heading.level - currentLevel))
                         \o Repeat(Close("ul"), Max(0, currentLevel - heading.level))
                         \o <<Open("li", <<>>),
                              Open("a", <<Attr("href", <<"#">> \o heading.id)>>),
                              Chars(escapeHtmlBasic(heading.text)),
                              Close("a"), Close("li")>>)

generateToc(headings, maxDepth) ==
    IF Len(headings) = 0 THEN <<>>
    ELSE LET loop == generateTocFrom(headings, 1, maxDepth, headings[1].level,
                        <<Open("nav", <<Attr("class", <<"toc">>)>>), Open("h2", <<>>),
                          Chars(<<"Table of Contents">>), Close("h2"), Open("ul", <<>>)>>)
         IN  loop.html
             \o Repeat(Close("ul"), Max(0, loop.currentLevel - headings[1].level))
             \o <<Close("ul"), Close("nav"), NL>>

ALLOWED_TAGS ==
    {"h1", "h2", "h3", "h4", "h5", "h6", "p", "br", "hr", "strong", "em", "u", "del",
     "code", "pre", "a", "img", "ul", "ol", "li", "table", "thead", "tbody", "tr", "th",
     "td", "blockquote", "div", "span", "sup", "sub"}
ALLOWED_ATTR == {"href", "src", "alt", "title", "class", "id", "data-component", "data-props"}

\* the sanitizer with the allowlists: a tag that is not allowed is removed and its
\* content kept, an attribute that is not allowed is removed.  (The renderer
\* writes no data-* attribute other than data-component.)
sanitizeHtml(html) ==
    LET allowedTag(e) == e.k = "text" \/ e.tag \in ALLOWED_TAGS
        allowedAttr(a) == a.name \in ALLOWED_ATTR
        kept == SelectSeq(html, allowedTag)
    IN  [k \in 1..Len(kept) |-> [kept[k] EXCEPT !.attrs = SelectSeq(@, allowedAttr)]]

\* a renderToHtml that takes the table of contents as enabled whatever the option
tocEnabledAlways(md) == TRUE

\* ast.metadata.options?.toc !== false
tocEnabled(md) ==
    ~("toc" \in DOMAIN md.options /\ md.options["toc"] = Bool(FALSE))

\* typeof ast.metadata.options?.toc === 'number' ? ast.metadata.options.toc : 3
DefaultTocDepth == 3
tocDepth(md) ==
    IF "toc" \in DOMAIN md.options /\ md.options["toc"].t = "number"
    THEN md.options["toc"]
    ELSE Num(DefaultTocDepth)

ReturnArrow == "\\u21A9"

\* the footnotes section of renderToHtml
renderFootnotes(footnotes) ==
    IF Len(footnotes) = 0 THEN <<>>
    ELSE <<Open("div", <<Attr("class", <<"footnotes">>)>>), Open("hr", <<>>), Open("ol", <<>>)>>
         \o Concat([k \in 1..Len(footnotes) |->
                <<Open("li", <<Attr("id", <<"fn-">> \o escapeHtml(footnotes[k].key))>>),
                  Chars(footnotes[k].value \o <<" ">>),
                  Open("a", <<Attr("href", <<"#fnref-">> \o escapeHtml(footnotes[k].key))>>),
                  Chars(<<ReturnArrow>>), Close("a"), Close("li")>>])
         \o <<Close("ol"), Close("div")>>

----------------------------------------------------------------------------
(* Inputs of the inline parser *)

InlinePieces ==
    { <<"a">>, <<" ">>, <<"*">>, <<"/">>, <<"_">>, <<"~">>, <<"=">>, <<"+">>,
      <<"[", "[", "u">>, <<"]", "[", "d">>, <<"]", "[", "e">>, <<"]", "]">>,
      <<"[", "f", "n", ":", "r">>, <<"]">>, <<"\\", "\\">>, <<".", "p", "n", "g">> }

InlineTexts ==
    {Concat(ps) : ps \in UNION {[1..n -> InlinePieces] : n \in 0..MaxPieces}}

----------------------------------------------------------------------------
(* The inline parser applied to one text *)

DefaultOptions == [sanitize |-> TRUE, codeHighlight |-> TRUE]

MaxCalls == 2

\* let highlighter: Highlighter | null = null
NoHighlighter == 0

\* no call of highlightCode has started
NoCalls ==
    [c \in 1..MaxCalls |->
        [pc |-> "ready", code |-> <<>>, language |-> <<>>, instance |-> NoHighlighter,
         result |-> <<>>]]

NoRenders == <<>>

\* the state of the process when nothing runs beside the one call
NoWatch == <<>>

Quiet ==
    /\ highlighter = NoHighlighter /\ hc = NoCalls /\ renders = NoRenders
    /\ watch = NoWatch

\* the state of a run before the document is parsed
Idle ==
    /\ em = ExtractStart
    /\ metadata = InitialMetadata
    /\ contentStartLine = 0
    /\ tokens = <<>>
    /\ pt = [i |-> 0, nodes |-> <<>>]
    /\ ast = <<>>
    /\ rt = [context |-> [footnotes |-> <<>>, footnoteCounter |-> 1, headings |-> <<>>],
             bodyHtml |-> <<>>, k |-> 1]
    /\ out = [tocHtml |-> <<>>, footnotesHtml |-> <<>>, html |-> <<>>]

InitInline ==
    /\ pc = "inline"
    /\ text \in InlineTexts
    /\ nodes = <<>>
    /\ lines = <<>>
    /\ options = DefaultOptions
    /\ Idle
    /\ Quiet

ParseInline ==
    /\ pc = "inline"
    /\ nodes' = parseInlineMarkup(text)
    /\ pc' = "inlineDone"
    /\ UNCHANGED <<text, lines, options, em, metadata, contentStartLine, tokens, pt, ast,
                   rt, out,
                   highlighter, hc, renders, watch>>

NextInline == ParseInline

SpecInline == InitInline /\ [][NextInline]_vars

----------------------------------------------------------------------------
(* parse(content) and renderToHtml(ast, options) applied to one document *)

\* a document is handed to parse
InitDocument(documents, optionSets) ==
    /\ pc = "extractMetadata"
    /\ lines \in documents
    /\ options \in optionSets
    /\ text = <<>>
    /\ nodes = <<>>
    /\ Idle
    /\ Quiet

\* an iteration of the loop of extractMetadata
ExtractStep ==
    /\ pc = "extractMetadata"
    /\ ~ExtractStops(lines, em)
    /\ em' = ExtractIteration(lines, em)
    /\ UNCHANGED <<pc, text, nodes, lines, options, metadata, contentStartLine, tokens, pt,
                   ast, rt, out,
                   highlighter, hc, renders, watch>>

\* extractMetadata returns { metadata, contentStartLine: i }
ExtractReturn ==
    /\ pc = "extractMetadata"
    /\ ExtractStops(lines, em)
    /\ metadata' = em.metadata
    /\ contentStartLine' = em.i
    /\ pc' = "tokenize"
    /\ UNCHANGED <<text, nodes, lines, options, em, tokens, pt, ast, rt, out,
                   highlighter, hc, renders, watch>>

\* lines.slice(contentStartLine)
ContentLines == SubSeq(lines, contentStartLine + 1, Len(lines))

\* tokenize(contentLines.join('\n'))
Tokenize ==
    /\ pc = "tokenize"
    /\ tokens' = tokenize(IF ContentLines = <<>> THEN <<<<>>>> ELSE ContentLines)
    /\ pt' = [i |-> 0, nodes |-> <<>>]
    /\ pc' = "parseTokens"
    /\ UNCHANGED <<text, nodes, lines, options, em, metadata, contentStartLine, ast, rt, out,
                   highlighter, hc, renders, watch>>

\* an iteration of the loop of parseTokens
ParseStep ==
    /\ pc = "parseTokens"
    /\ pt.i < Len(tokens)
    /\ LET r == Dispatch(tokens, pt.i)
       IN  pt' = [i |-> r.endIndex + 1, nodes |-> pt.nodes \o r.push]
    /\ UNCHANGED <<pc, text, nodes, lines, options, em, metadata, contentStartLine, tokens,
                   ast, rt, out,
                   highlighter, hc, renders, watch>>

\* parseTokens returns; parse makes the document of the metadata and the nodes
ParseReturn ==
    /\ pc = "parseTokens"
    /\ pt.i >= Len(tokens)
    /\ ast' = pt.nodes
    /\ pc' = "parsed"
    /\ UNCHANGED <<text, nodes, lines, options, em, metadata, contentStartLine, tokens, pt,
                   rt, out,
                   highlighter, hc, renders, watch>>

\* renderToHtml is called: a context of its own
RenderBegin ==
    /\ pc = "parsed"
    /\ rt' = [context |-> [footnotes |-> <<>>, footnoteCounter |-> 1, headings |-> <<>>],
              bodyHtml |-> <<>>, k |-> 1]
    /\ pc' = "renderToHtml"
    /\ UNCHANGED <<text, nodes, lines, options, em, metadata, contentStartLine, tokens, pt,
                   ast, out,
                   highlighter, hc, renders, watch>>

\* bodyHtml += await renderNode(node, context), for the next child of the document
RenderStep ==
    /\ pc = "renderToHtml"
    /\ rt.k <= Len(ast)
    /\ LET r == renderNode(ast[rt.k], [rt.context EXCEPT !.options = options])
       IN  rt' = [context |-> [footnotes |-> r.ctx.footnotes,
                               footnoteCounter |-> r.ctx.footnoteCounter,
                               headings |-> r.ctx.headings],
                  bodyHtml |-> rt.bodyHtml \o r.html, k |-> rt.k + 1]
    /\ UNCHANGED <<pc, text, nodes, lines, options, em, metadata, contentStartLine, tokens,
                   pt, ast, out,
                   highlighter, hc, renders, watch>>

\* the table of contents, the footnotes section, the sanitizer: renderToHtml returns
RenderReturn ==
    /\ pc = "renderToHtml"
    /\ rt.k > Len(ast)
    /\ LET tocHtml == IF tocEnabled(metadata) /\ Len(rt.context.headings) > 0
                      THEN generateToc(rt.context.headings, tocDepth(metadata))
                      ELSE <<>>
           footnotesHtml == renderFootnotes(rt.context.footnotes)
           fullHtml == tocHtml \o rt.bodyHtml \o footnotesHtml
       IN  out' = [tocHtml |-> tocHtml, footnotesHtml |-> footnotesHtml,
                   html |-> IF options.sanitize THEN sanitizeHtml(fullHtml) ELSE fullHtml]
    /\ pc' = "done"
    /\ UNCHANGED <<text, nodes, lines, options, em, metadata, contentStartLine, tokens, pt,
                   ast, rt,
                   highlighter, hc, renders, watch>>

NextParse == ExtractStep \/ ExtractReturn \/ Tokenize \/ ParseStep \/ ParseReturn

Next == NextParse \/ RenderBegin \/ RenderStep \/ RenderReturn

----------------------------------------------------------------------------
(* Documents *)

\* the sequences of at most n elements of S
SeqsUpTo(S, n) == UNION {[1..k -> S] : k \in 0..n}

TextLine == <<"x">>
HeadingLine == <<"*", " ", "H">>
LogbookLine == <<":", "L", "O", "G", "B", "O", "O", "K", ":">>

\* documents of text, headings and drawers
MaxDrawerLines == 5

DrawerLines == {TextLine, HeadingLine, LogbookLine, PROPERTIES_LINE, END_LINE}

DrawerDocuments == SeqsUpTo(DrawerLines, MaxDrawerLines)

InitDrawer == InitDocument(DrawerDocuments, {DefaultOptions})

SpecDrawer == InitDrawer /\ [][NextParse]_vars

BeginSrcLine == <<"#", "+", "B", "E", "G", "I", "N", "_", "S", "R", "C", " ", "j", "s">>
EndSrcLine == <<"#", "+", "E", "N", "D", "_", "S", "R", "C">>
ListLine == <<"-", " ", "i">>
IndentedLine == <<" ", " ", "x">>
BlankLine == <<" ">>
TableLine == <<"|", "a", "|">>
BeginQuoteLine == <<"#", "+", "B", "E", "G", "I", "N", "_", "Q", "U", "O", "T", "E">>

\* documents of source blocks around lines of every kind
MaxCodeLines == 4

CodeLines ==
    {BeginSrcLine, EndSrcLine, HeadingLine, ListLine, IndentedLine, BlankLine, TableLine,
     BeginQuoteLine}

CodeDocuments == SeqsUpTo(CodeLines, MaxCodeLines)

InitCode == InitDocument(CodeDocuments, {DefaultOptions})

SpecCode == InitCode /\ [][NextParse]_vars

FooLine == <<"#", "+", "F", "O", "O", ":", " ", "a">>
FooLowerLine == <<"#", "+", "f", "o", "o", ":", " ", "b">>
TitleLine == <<"#", "+", "T", "I", "T", "L", "E", ":", " ", "T">>
IdLine == <<":", "I", "D", ":", " ", "1">>

\* documents of front-matter lines, property drawers, a block opener and text
MaxMetaLines == 4

MetaLines ==
    {FooLine, FooLowerLine, TitleLine, PROPERTIES_LINE, IdLine, END_LINE, BeginSrcLine,
     TextLine}

MetaDocuments == SeqsUpTo(MetaLines, MaxMetaLines)

InitMeta == InitDocument(MetaDocuments, {DefaultOptions})

SpecMeta == InitMeta /\ [][NextParse]_vars

EndQuoteLine == <<"#", "+", "E", "N", "D", "_", "Q", "U", "O", "T", "E">>

\* the lines of a block of the kind around the inline text
Block(kind, inline) ==
    CASE kind = "paragraph" -> <<inline>>
      [] kind = "heading" -> <<<<"*", " ">> \o inline>>
      [] kind = "listItem" -> <<<<"-", " ">> \o inline>>
      [] kind = "tableCell" -> <<<<"|">> \o inline \o <<"|">>>>
      [] kind = "quote" -> <<BeginQuoteLine, inline, EndQuoteLine>>

BlockKinds == {"paragraph", "heading", "listItem", "tableCell", "quote"}

\* the documents made of at most n blocks of the kinds around the inline texts
BlockDocuments(inlines, n) ==
    {Concat([k \in 1..Len(bs) |-> Block(bs[k].kind, bs[k].inline)]) :
        bs \in SeqsUpTo([kind : BlockKinds, inline : inlines], n)}

\* the render options with the sanitizer on and off
SanitizeOptionSets == [sanitize : BOOLEAN, codeHighlight : {TRUE}]

\* the lines the rendered documents open with: a title for extractMetadata and a
\* heading, the first line of the content
Opening == <<TitleLine, HeadingLine>>

\* documents of blocks with one inline construct each
MaxInlineBlocks == 1

InlineSnippets ==
    { <<"*", "b", "*">>, <<"/", "i", "/">>, <<"_", "u", "_">>, <<"~", "c", "~">>, <<"=", "v", "=">>, <<"+", "s", "+">>,
      <<"[", "[", "u", "]", "[", "d", "]", "]">>,
      <<"[", "[", "u", ".", "p", "n", "g", "]", "[", "d", "]", "]">>,
      <<"a", "\\", "\\", "b">> }

InlineDocuments ==
    {Opening \o d : d \in BlockDocuments(InlineSnippets, MaxInlineBlocks)}

InitInlineRender == InitDocument(InlineDocuments, SanitizeOptionSets)

SpecInlineRender == InitInlineRender /\ [][Next]_vars

\* documents of blocks that hold a footnote reference or plain text
MaxFootnoteBlocks == 2

FootnoteSnippets == {<<"[", "f", "n", ":", "1", "]">>, <<"[", "f", "n", ":", "2", "]">>, <<"a">>}

FootnoteDocuments ==
    {Opening \o d : d \in BlockDocuments(FootnoteSnippets, MaxFootnoteBlocks)}

InitFootnote == InitDocument(FootnoteDocuments, SanitizeOptionSets)

SpecFootnote == InitFootnote /\ [][Next]_vars

\* the heading line of the level: as many asterisks, and the letter of the level
\* as its text
HeadingOfLevel(n) == Repeat("*", n) \o <<" ", UpperLetters[n]>>

\* the line #+OPTIONS: toc:value
TocOptionLine(value) == <<"#", "+", "O", "P", "T", "I", "O", "N", "S", ":", " ", "t", "o", "c", ":">> \o value

\* documents of headings under at most one toc option
MaxTocDepth == 2
MaxTocLevel == 4
MaxTocHeadings == 3

TocValues == {T, <<"x">>} \cup {<<DigitSeq[d + 1]>> : d \in 0..MaxTocDepth}

TocDocuments ==
    {front \o hs :
        front \in {<<>>} \cup {<<TocOptionLine(v)>> : v \in TocValues},
        hs \in SeqsUpTo({HeadingOfLevel(n) : n \in 1..MaxTocLevel}, MaxTocHeadings)}

InitToc == InitDocument(TocDocuments, SanitizeOptionSets)

SpecToc == InitToc /\ [][Next]_vars

\* documents of headings of up to MaxStars asterisks, with or without a title line
MaxStars == 7
MaxStarHeadings == 2

StarDocuments ==
    {front \o hs :
        front \in {<<>>, <<TitleLine>>},
        hs \in SeqsUpTo({HeadingOfLevel(n) : n \in 1..MaxStars}, MaxStarHeadings)}

InitStars == InitDocument(StarDocuments, SanitizeOptionSets)

SpecStars == InitStars /\ [][Next]_vars

\* documents of headings under toc options that set and reset the table of
\* contents
MaxOptionLines == 2
MaxNilHeadings == 2

NilDocuments ==
    {front \o hs :
        front \in SeqsUpTo({TocOptionLine(NIL), TocOptionLine(T), TocOptionLine(<<"2">>)},
                           MaxOptionLines),
        hs \in SeqsUpTo({HeadingOfLevel(1), HeadingOfLevel(2)}, MaxNilHeadings)}

InitNil == InitDocument(NilDocuments, SanitizeOptionSets)

SpecNil == InitNil /\ [][Next]_vars

MaxExampleLines == 2

HeadingALine == <<"*", " ", "A">>

SentenceLine == <<"S", "o", "m", "e", " ", "*", "b", "o", "l", "d", "*", " ", "a", "n", "d", " ", "/", "i", "t", "a", "l", "i", "c", "/", " ", "t", "e", "x", "t", ".">>

\* the worked example of the documentation and the documents made of its lines
ExampleDocument == <<TitleLine, HeadingALine, SentenceLine>>

ExampleDocuments ==
    {front \o before \o sentence \o after :
        front \in {<<>>, <<TitleLine>>},
        before \in SeqsUpTo({HeadingALine, TextLine}, MaxExampleLines),
        sentence \in {<<>>, <<SentenceLine>>},
        after \in {<<>>, <<HeadingALine>>}}

InitExample == InitDocument(ExampleDocuments, SanitizeOptionSets)

SpecExample == InitExample /\ [][Next]_vars

MaxLinkWords == 1

\* texts made of one [[url]] or [[url][description]] span between plain words
LinkStems == {<<>>, <<"u">>, <<"h", "t", "t", "p", "s", ":", "/", "/", "x", ".", "t", "e", "s", "t", "/", "a">>, <<"*", "u", "*">>}

LinkEndings == {<<>>, <<".", "p", "n", "g">>, <<".", "P", "N", "G">>, <<".", "J", "p", "g">>, <<".", "j", "p", "e", "g">>, <<".", "g", "i", "f">>, <<".", "s", "v", "g">>, <<".", "w", "e", "b", "p">>, <<".", "b", "m", "p">>, <<".", "p", "n", "g", "?">>, <<"p", "n", "g">>}

LinkUrls == {stem \o ending : stem \in LinkStems, ending \in LinkEndings}

NoDescription == [given |-> FALSE, value |-> <<>>]

Description(d) == [given |-> TRUE, value |-> d]

LinkDescriptions == {NoDescription, Description(<<>>), Description(<<"A", "l", "t">>), Description(<<"*", "d", "*", " ", "e">>)}

LinkWords == {Concat(ws) : ws \in SeqsUpTo({<<"a">>, <<" ", "b", " ">>}, MaxLinkWords)}

LinkSpan(url, d) ==
    <<"[", "[">> \o url \o (IF d.given THEN <<"]", "[">> \o d.value ELSE <<>>) \o <<"]", "]">>

LinkTexts ==
    {before \o LinkSpan(url, d) \o after :
        before \in LinkWords, url \in LinkUrls, d \in LinkDescriptions, after \in LinkWords}

InitLink ==
    /\ pc = "inline"
    /\ text \in LinkTexts
    /\ nodes = <<>>
    /\ lines = <<>>
    /\ options = DefaultOptions
    /\ Idle
    /\ Quiet

SpecLink == InitLink /\ [][NextInline]_vars

MaxTableLines == 3

HeaderRowLine == <<"|", "a", "|", "b", "|">>

DashRowLine == <<"|", "-", "|", "-", "|">>

DataRowLine == <<"|", "1", "|", "2", "|">>

OpenRowLine == <<"|", "a", "|", "b">>

TableRowLines == {HeaderRowLine, DashRowLine, DataRowLine, OpenRowLine, <<"|", ":", "-", "+", "-", " ", "|">>, <<" ", "|", "-">>, <<"|", "a", "|", "-", "|">>}

\* the table of the documentation
ExampleTable == <<HeaderRowLine, DashRowLine, DataRowLine>>

TableDocuments ==
    {front \o body :
        front \in {<<>>, <<TitleLine>>},
        body \in SeqsUpTo(TableRowLines \cup {TextLine}, MaxTableLines)}

InitTable == InitDocument(TableDocuments, {DefaultOptions})

SpecTable == InitTable /\ [][NextParse]_vars

MaxListLines == 3

DeeperListLine == <<" ", "-", " ", "j">>

ListLines == {ListLine, DeeperListLine, <<" ", " ", "+", " ", "k">>, <<"1", ".", " ", "n">>, <<" ", "2", ")", " ", "m">>, TextLine}

ListDocuments ==
    {front \o body :
        front \in {<<>>, <<TitleLine>>},
        body \in SeqsUpTo(ListLines, MaxListLines)}

InitList == InitDocument(ListDocuments, {DefaultOptions})

SpecList == InitList /\ [][NextParse]_vars

MaxBlockLines == 4

EndVerseLine == <<"#", "+", "E", "N", "D", "_", "V", "E", "R", "S", "E">>

BlockLines == {BeginQuoteLine, EndQuoteLine, EndVerseLine, TextLine}

\* documents of generic blocks, after a first line of text that ends the
\* front-matter
BlockFamilyDocuments ==
    {front \o <<TextLine>> \o body :
        front \in {<<>>, <<TitleLine>>},
        body \in SeqsUpTo(BlockLines, MaxBlockLines)}

InitBlock == InitDocument(BlockFamilyDocuments, {DefaultOptions})

SpecBlock == InitBlock /\ [][NextParse]_vars

MaxLexerLines == 2

EndDrawerLine == <<":", "E", "N", "D", ":">>

ShortcodeLine == <<"{", "{", "<", " ", "c", " ", ">", "}", "}">>

LexerIndents == {<<>>, <<" ", "\t">>}

LexerBaseLines ==
    {<<>>, HeadingLine, BeginSrcLine, EndSrcLine, BeginQuoteLine, EndQuoteLine, LogbookLine,
     EndDrawerLine, TableLine, ListLine, <<"2", ")", " ", "n">>, ShortcodeLine, TextLine, <<"x", " ">>, <<"*", "x">>}

LexerLines == {indent \o base : indent \in LexerIndents, base \in LexerBaseLines}

LexerDocuments == SeqsUpTo(LexerLines, MaxLexerLines)

\* tokenize called on a text of its own, the text given as its lines
InitLexer ==
    /\ pc = "tokenize"
    /\ lines \in LexerDocuments
    /\ options = DefaultOptions
    /\ text = <<>>
    /\ nodes = <<>>
    /\ Idle
    /\ Quiet

NextLexer == Tokenize

SpecLexer == InitLexer /\ [][NextLexer]_vars

----------------------------------------------------------------------------
(* Calls of highlightCode that run together *)

HighlightCodes == {<<"x">>, <<"<">>}

HighlightLanguages == {<<>>, <<"r", "u", "s", "t">>, <<"c", "o", "b", "o", "l">>}

\* the calls that have called getHighlighter
Created == {c \in 1..MaxCalls : hc[c].instance # NoHighlighter}

\* highlightCode is called: it runs to its first await, the one of
\* getHighlighter when the process has no highlighter yet, and to its return
\* otherwise
HighlightCodeCall(c) ==
    /\ pc = "highlightCode"
    /\ hc[c].pc = "ready"
    /\ \E code \in HighlightCodes, language \in HighlightLanguages :
          hc' = [hc EXCEPT ![c] =
                    IF highlighter = NoHighlighter
                    THEN [pc |-> "getHighlighter", code |-> code, language |-> language,
                          instance |-> Cardinality(Created) + 1, result |-> <<>>]
                    ELSE [pc |-> "resolved", code |-> code, language |-> language,
                          instance |-> NoHighlighter,
                          result |-> highlightCode(code, language)]]
    /\ UNCHANGED <<pc, text, nodes, lines, options, em, metadata, contentStartLine, tokens,
                   pt, ast, rt, out, highlighter, renders, watch>>

\* the promise of getHighlighter is fulfilled: the call stores the instance
\* and runs the try block to its return
GetHighlighterFulfilled(c) ==
    /\ pc = "highlightCode"
    /\ hc[c].pc = "getHighlighter"
    /\ highlighter' = hc[c].instance
    /\ hc' = [hc EXCEPT ![c].pc = "resolved",
                        ![c].result = highlightCode(hc[c].code, hc[c].language)]
    /\ UNCHANGED <<pc, text, nodes, lines, options, em, metadata, contentStartLine, tokens,
                   pt, ast, rt, out, renders, watch>>

\* the promise of getHighlighter is rejected: the await is outside the try
\* block and the call rejects
GetHighlighterRejected(c) ==
    /\ pc = "highlightCode"
    /\ hc[c].pc = "getHighlighter"
    /\ hc' = [hc EXCEPT ![c].pc = "rejected"]
    /\ UNCHANGED <<pc, text, nodes, lines, options, em, metadata, contentStartLine, tokens,
                   pt, ast, rt, out, highlighter, renders, watch>>

InitHighlight ==
    /\ pc = "highlightCode"
    /\ text = <<>>
    /\ nodes = <<>>
    /\ lines = <<>>
    /\ options = DefaultOptions
    /\ Idle
    /\ Quiet

NextHighlight ==
    \E c \in 1..MaxCalls :
        \/ HighlightCodeCall(c)
        \/ GetHighlighterFulfilled(c)
        \/ GetHighlighterRejected(c)

SpecHighlight == InitHighlight /\ [][NextHighlight]_vars

----------------------------------------------------------------------------
(* Two calls of renderToHtml that run together *)

MaxRenderLines == 2

\* parseTokens as a function of the tokens
RECURSIVE parseTokensFrom(_, _)
parseTokensFrom(toks, i) ==
    IF i >= Len(toks) THEN <<>>
    ELSE LET r == Dispatch(toks, i)
         IN  r.push \o parseTokensFrom(toks, r.endIndex + 1)

parseTokens(toks) == parseTokensFrom(toks, 0)

FootnoteItemLine == <<"-", " ", "[", "f", "n", ":", "1", "]">>

DeeperFootnoteItemLine == <<" ", "-", " ", "[", "f", "n", ":", "2", "]">>

RenderLines == {HeadingOfLevel(1), FootnoteItemLine, DeeperFootnoteItemLine}

\* the trees of the documents the calls render
RenderAsts == {parseTokens(tokenize(d)) : d \in SeqsUpTo(RenderLines, MaxRenderLines) \ {<<>>}}

RenderCalls == {1, 2}

\* a context that shares one context between the calls
ContextOwnerShared(c) == 1

\* const context = { options, footnotes: new Map(), footnoteCounter: 1, headings: [] }:
\* the context a call works on is the object the call made
ContextOwner(c) == c

FreshContext == [footnotes |-> <<>>, footnoteCounter |-> 1, headings |-> <<>>]

\* what renderToHtml returns for the body, from the context after the walk
RenderResult(ctx, bodyHtml, md, opts) ==
    LET tocHtml == IF tocEnabled(md) /\ Len(ctx.headings) > 0
                   THEN generateToc(ctx.headings, tocDepth(md))
                   ELSE <<>>
        footnotesHtml == renderFootnotes(ctx.footnotes)
        fullHtml == tocHtml \o bodyHtml \o footnotesHtml
    IN  [tocHtml |-> tocHtml, footnotesHtml |-> footnotesHtml,
         html |-> IF opts.sanitize THEN sanitizeHtml(fullHtml) ELSE fullHtml]

InitRenders ==
    /\ pc = "renderCalls"
    /\ text = <<>>
    /\ nodes = <<>>
    /\ lines = <<>>
    /\ options = DefaultOptions
    /\ Idle
    /\ highlighter = NoHighlighter
    /\ hc = NoCalls
    /\ watch = NoWatch
    /\ renders \in [RenderCalls ->
                      [pc : {"called"}, ast : RenderAsts, metadata : {InitialMetadata},
                       options : {DefaultOptions}, context : {FreshContext},
                       bodyHtml : {<<>>}, k : {1},
                       out : {[tocHtml |-> <<>>, footnotesHtml |-> <<>>, html |-> <<>>]}]]

\* the call makes its context and the empty bodyHtml
RenderCallBegin(c) ==
    /\ pc = "renderCalls"
    /\ renders[c].pc = "called"
    /\ renders' = [renders EXCEPT ![c].pc = "renderToHtml", ![c].bodyHtml = <<>>, ![c].k = 1,
                                  ![ContextOwner(c)].context = FreshContext]
    /\ UNCHANGED <<pc, text, nodes, lines, options, em, metadata, contentStartLine, tokens,
                   pt, ast, rt, out, highlighter, hc, watch>>

\* bodyHtml += await renderNode(node, context), for the next child of the
\* document of the call: the other call may run before and after it
RenderCallStep(c) ==
    /\ pc = "renderCalls"
    /\ renders[c].pc = "renderToHtml"
    /\ renders[c].k <= Len(renders[c].ast)
    /\ LET own == renders[ContextOwner(c)].context
           r == renderNode(renders[c].ast[renders[c].k],
                           [options |-> renders[c].options, footnotes |-> own.footnotes,
                            footnoteCounter |-> own.footnoteCounter,
                            headings |-> own.headings])
       IN  renders' = [renders EXCEPT
                          ![c].bodyHtml = @ \o r.html,
                          ![c].k = @ + 1,
                          ![ContextOwner(c)].context =
                              [footnotes |-> r.ctx.footnotes,
                               footnoteCounter |-> r.ctx.footnoteCounter,
                               headings |-> r.ctx.headings]]
    /\ UNCHANGED <<pc, text, nodes, lines, options, em, metadata, contentStartLine, tokens,
                   pt, ast, rt, out, highlighter, hc, watch>>

\* the table of contents, the footnotes section, the sanitizer: the call returns
RenderCallReturn(c) ==
    /\ pc = "renderCalls"
    /\ renders[c].pc = "renderToHtml"
    /\ renders[c].k > Len(renders[c].ast)
    /\ renders' = [renders EXCEPT
                      ![c].pc = "done",
                      ![c].out = RenderResult(renders[ContextOwner(c)].context,
                                              renders[c].bodyHtml, renders[c].metadata,
                                              renders[c].options)]
    /\ UNCHANGED <<pc, text, nodes, lines, options, em, metadata, contentStartLine, tokens,
                   pt, ast, rt, out, highlighter, hc, watch>>

NextRenders ==
    \E c \in RenderCalls : RenderCallBegin(c) \/ RenderCallStep(c) \/ RenderCallReturn(c)

SpecRenders == InitRenders /\ [][NextRenders]_vars

\* documents of every kind of token, with openers left open and end markers
\* that close nothing, after a first line of text that ends the front-matter,
\* with or without a title line
MaxCursorLines == 3

CursorLines ==
    {BeginSrcLine, EndSrcLine, BeginQuoteLine, EndQuoteLine, LogbookLine, END_LINE,
     TextLine, ListLine, TableLine, HeadingLine, BlankLine, ShortcodeLine}

CursorDocuments ==
    {front \o <<TextLine>> \o body :
        front \in {<<>>, <<TitleLine>>},
        body \in SeqsUpTo(CursorLines, MaxCursorLines)}

InitCursor == InitDocument(CursorDocuments, {DefaultOptions})

SpecCursor == InitCursor /\ [][NextParse]_vars

\* texts of openers with and without a closer after them
MaxOpenerPieces == 4

OpenerPieces ==
    { <<"a">>, <<" ">>, <<"*">>, <<"/">>, <<"[", "[">>, <<"]", "]">>,
      <<"[", "f", "n", ":">>, <<"\\", "\\">> }

OpenerTexts ==
    {Concat(ps) : ps \in UNION {[1..n -> OpenerPieces] : n \in 0..MaxOpenerPieces}}

InitOpener ==
    /\ pc = "inline"
    /\ text \in OpenerTexts
    /\ nodes = <<>>
    /\ lines = <<>>
    /\ options = DefaultOptions
    /\ Idle
    /\ Quiet

SpecOpener == InitOpener /\ [][NextInline]_vars

----------------------------------------------------------------------------
(* watchCommand: the initial build, the watcher and the rebuilds *)

MaxEvents == 2
MaxWatchFiles == 2

WatchEvents == {"change", "add"}

\* the output files: index.html and its companions in the directory of the
\* k-th source file, and sitemap.json, feed.json and routes.js at the root
PageOf(k) == k
SiteFiles == 0

\* a run of buildCommand at its first await, the one of glob
BuildStarted == [pc |-> "glob", files |-> 0, k |-> 0]

\* the runs of buildCommand that have not returned
Running == {b \in 1..Len(watch.builds) : watch.builds[b].pc # "done"}

\* a write of an output file by a run, with the runs in progress at that time
Written(path, b) == [path |-> path, build |-> b, running |-> Running]

\* watchCommand is called: it calls buildCommand and awaits it, no watcher yet
InitWatch ==
    /\ pc = "watchCommand"
    /\ text = <<>>
    /\ nodes = <<>>
    /\ lines = <<>>
    /\ options = DefaultOptions
    /\ Idle
    /\ highlighter = NoHighlighter /\ hc = NoCalls /\ renders = NoRenders
    /\ \E n \in 0..(MaxWatchFiles - 1) :
          watch = [pc |-> "initialBuild", files |-> n, events |-> 0,
                   builds |-> <<BuildStarted>>, log |-> <<>>]

\* glob is settled: the run returns when there is no file, and goes on to the
\* output directory and the template assets otherwise
BuildGlobbed(b) ==
    /\ pc = "watchCommand"
    /\ b <= Len(watch.builds)
    /\ watch.builds[b].pc = "glob"
    /\ watch' = [watch EXCEPT !.builds[b] =
                    IF watch.files = 0
                    THEN [pc |-> "done", files |-> 0, k |-> 0]
                    ELSE [pc |-> "assets", files |-> watch.files, k |-> 0]]
    /\ UNCHANGED <<pc, text, nodes, lines, options, em, metadata, contentStartLine, tokens,
                   pt, ast, rt, out, highlighter, hc, renders>>

\* mkdir and copyTemplateAssets are settled: the loop over the files begins
BuildAssetsCopied(b) ==
    /\ pc = "watchCommand"
    /\ b <= Len(watch.builds)
    /\ watch.builds[b].pc = "assets"
    /\ watch' = [watch EXCEPT !.builds[b].pc = "file", !.builds[b].k = 1]
    /\ UNCHANGED <<pc, text, nodes, lines, options, em, metadata, contentStartLine, tokens,
                   pt, ast, rt, out, highlighter, hc, renders>>

\* an iteration of the loop over the files: the page of the file is written
BuildFileWritten(b) ==
    /\ pc = "watchCommand"
    /\ b <= Len(watch.builds)
    /\ watch.builds[b].pc = "file"
    /\ LET k == watch.builds[b].k
       IN  watch' = [watch EXCEPT
                        !.log = Append(@, Written(PageOf(k), b)),
                        !.builds[b].k = k + 1,
                        !.builds[b].pc = IF k = watch.builds[b].files THEN "site" ELSE "file"]
    /\ UNCHANGED <<pc, text, nodes, lines, options, em, metadata, contentStartLine, tokens,
                   pt, ast, rt, out, highlighter, hc, renders>>

\* sitemap.json, feed.json and routes.js are written and buildCommand returns
BuildSiteWritten(b) ==
    /\ pc = "watchCommand"
    /\ b <= Len(watch.builds)
    /\ watch.builds[b].pc = "site"
    /\ watch' = [watch EXCEPT !.log = Append(@, Written(SiteFiles, b)),
                              !.builds[b].pc = "done"]
    /\ UNCHANGED <<pc, text, nodes, lines, options, em, metadata, contentStartLine, tokens,
                   pt, ast, rt, out, highlighter, hc, renders>>

\* the initial build has returned: watchCommand makes the watcher and sets its
\* handlers
WatcherStarted ==
    /\ pc = "watchCommand"
    /\ watch.pc = "initialBuild"
    /\ watch.builds[1].pc = "done"
    /\ watch' = [watch EXCEPT !.pc = "watching"]
    /\ UNCHANGED <<pc, text, nodes, lines, options, em, metadata, contentStartLine, tokens,
                   pt, ast, rt, out, highlighter, hc, renders>>

\* the watcher emits a change or an add: the handler calls buildCommand, which
\* runs to its first await
WatcherEvent(event) ==
    /\ pc = "watchCommand"
    /\ watch.pc = "watching"
    /\ watch.events < MaxEvents
    /\ watch' = [watch EXCEPT
                    !.events = @ + 1,
                    !.files = IF event = "add" THEN Min(@ + 1, MaxWatchFiles) ELSE @,
                    !.builds = Append(@, BuildStarted)]
    /\ UNCHANGED <<pc, text, nodes, lines, options, em, metadata, contentStartLine, tokens,
                   pt, ast, rt, out, highlighter, hc, renders>>

NextWatch ==
    \/ \E b \in 1..(MaxEvents + 1) :
          \/ BuildGlobbed(b)
          \/ BuildAssetsCopied(b)
          \/ BuildFileWritten(b)
          \/ BuildSiteWritten(b)
    \/ WatcherStarted
    \/ \E event \in WatchEvents : WatcherEvent(event)

SpecWatch == InitWatch /\ [][NextWatch]_vars

----------------------------------------------------------------------------
(* C1: the inline parser loses no visible character *)

\* the characters the recognized delimiters * / _ ~ = + [[ ][ ]] [fn: ] \\ are made of
MarkupChars == {"*", "/", "_", "~", "=", "+", "[", "]", "\\", "f", "n", ":"}

\* what the nodes carry, in document order: the text leaves, the content of
\* emphasis nodes, the target and description of links, the source and
\* alternative text of images, the reference of footnotes
RECURSIVE CarriedText(_)
CarriedText(ns) ==
    IF ns = <<>> THEN <<>>
    ELSE LET n == Head(ns)
             own == CASE n.type = "text" -> n.value
                      [] n.type = "link" -> n.properties.href \o CarriedText(n.children)
                      [] n.type = "image" -> n.properties.src \o n.properties.alt
                      [] n.type = "footnote" -> n.properties.ref
                      [] OTHER -> CarriedText(n.children)
         IN  own \o CarriedText(Tail(ns))

RECURSIVE IsSubsequence(_, _)
IsSubsequence(a, b) ==
    IF a = <<>> THEN TRUE
    ELSE IF b = <<>> THEN FALSE
    ELSE IF Head(a) = Head(b) THEN IsSubsequence(Tail(a), Tail(b))
    ELSE IsSubsequence(a, Tail(b))

NonMarkup(s) == LET keep(c) == c \notin MarkupChars IN SelectSeq(s, keep)

\* C1: every character of the input that is not a character of a markup
\* delimiter is carried, in its original order, by the nodes parseInlineMarkup
\* returns
C1_NoCharacterLoss ==
    pc = "inlineDone" => IsSubsequence(NonMarkup(text), CarriedText(nodes))

----------------------------------------------------------------------------
(* C2: a drawer is consumed only through its :END: line *)

\* the content lines after line i (0-based) that are a :END: line
EndLinesAfter(i) ==
    {j \in (i + 1)..(Len(ContentLines) - 1) : trim(ContentLines[j + 1]) = END_LINE}

\* parseTokens is about to dispatch a :NAME: line that a later :END: line closes
DrawerDispatched ==
    /\ pc = "parseTokens"
    /\ pt.i < Len(tokens)
    /\ tokens[pt.i + 1].type = "DRAWER_START"
    /\ trim(ContentLines[pt.i + 1]) # END_LINE
    /\ EndLinesAfter(pt.i) # {}

FirstEndLineAfter(i) == CHOOSE j \in EndLinesAfter(i) : \A k \in EndLinesAfter(i) : j <= k

\* C2: when parseTokens dispatches a drawer opened by a :NAME: line and closed
\* by a :END: line, it consumes the tokens through that :END: line and no
\* further: the cursor stands on the line after the :END: line, which is
\* dispatched next
C2_DrawerConsumedThroughEnd ==
    [][DrawerDispatched => pt'.i = FirstEndLineAfter(pt.i) + 1]_vars

----------------------------------------------------------------------------
(* C3: a source block keeps its lines verbatim *)

\* the content lines after line i (0-based) that are a #+END_SRC line
EndSrcLinesAfter(i) ==
    {j \in (i + 1)..(Len(ContentLines) - 1) :
        startsWithIgnoreCase(trim(ContentLines[j + 1]), END_SRC)}

\* parseTokens is about to dispatch a #+BEGIN_SRC line that a later #+END_SRC
\* line closes
CodeBlockDispatched ==
    /\ pc = "parseTokens"
    /\ pt.i < Len(tokens)
    /\ tokens[pt.i + 1].type = "CODE_BLOCK_START"
    /\ EndSrcLinesAfter(pt.i) # {}

FirstEndSrcLineAfter(i) ==
    CHOOSE j \in EndSrcLinesAfter(i) : \A k \in EndSrcLinesAfter(i) : j <= k

\* C3: the text leaf of the codeBlock node pushed for a #+BEGIN_SRC line is
\* the source lines strictly between that line and the next #+END_SRC line,
\* joined by newlines, each line as it stands in the document
C3_CodeBlockVerbatim ==
    [][CodeBlockDispatched =>
          LET node == pt'.nodes[Len(pt'.nodes)]
          IN  /\ node.type = "codeBlock"
              /\ node.children[1].value =
                     join(SubSeq(ContentLines, pt.i + 2, FirstEndSrcLineAfter(pt.i)), NewLine)]_vars

----------------------------------------------------------------------------
(* C4: extractMetadata loses no front-matter *)

\* the locals of extractMetadata after n iterations of its loop
RECURSIVE ExtractAfter(_, _)
ExtractAfter(ls, n) ==
    IF n = 0 THEN ExtractStart ELSE ExtractIteration(ls, ExtractAfter(ls, n - 1))

\* the switch of extractMetadata has a case for the key
InDispatchTable(key) ==
    \/ \E k \in 1..Len(ScalarKeys) : ScalarKeys[k].key = key
    \/ key \in {KEYWORDS, FILETAGS, OPTIONS}

\* the consumed lines (0-based) the loop took as a #+KEY: value line with a key
\* outside the dispatch table
UnknownMetaLines ==
    {j \in 0..(contentStartLine - 1) :
        /\ ~ExtractAfter(lines, j).inPropertyDrawer
        /\ MetaMatches(trim(lines[j + 1]))
        /\ ~InDispatchTable(MetaKey(trim(lines[j + 1])))}

\* C4: when extractMetadata has returned, every key of a :KEY: value line read
\* inside a :PROPERTIES: drawer is present in metadata.properties, and every
\* consumed #+KEY: value line with a key outside the dispatch table has its key
\* there with the value of the last such line
C4_NoFrontMatterLoss ==
    pc # "extractMetadata" =>
        /\ \A key \in DOMAIN em.propertyDrawerProps : key \in DOMAIN metadata.properties
        /\ \A j \in UnknownMetaLines :
              LET key == MetaKey(trim(lines[j + 1]))
                  same == {k \in UnknownMetaLines : MetaKey(trim(lines[k + 1])) = key}
                  last == CHOOSE k \in same : \A m \in same : m <= k
              IN  /\ key \in DOMAIN metadata.properties
                  /\ metadata.properties[key] = MetaValue(trim(lines[last + 1]))

----------------------------------------------------------------------------
(* C5: a malformed #+ line ends the extraction *)

\* the line begins with #+ and is no #+KEY: value line
Malformed(line) == startsWith(trim(line), <<"#", "+">>) /\ ~MetaMatches(trim(line))

\* C5: when extractMetadata has returned, no line it consumed outside a
\* property drawer is a line that begins with #+ without matching #+KEY: value:
\* the first such line is where the content starts
C5_MalformedLineEndsExtraction ==
    pc # "extractMetadata" =>
        \A j \in 0..(contentStartLine - 1) :
            ~(Malformed(lines[j + 1]) /\ ~ExtractAfter(lines, j).inPropertyDrawer)

----------------------------------------------------------------------------
(* C6: an inline node is rendered as its element in every block *)

\* the nodes of a forest, parents before children
RECURSIVE Descendants(_)
Descendants(ns) ==
    IF ns = <<>> THEN <<>>
    ELSE <<Head(ns)>> \o Descendants(Head(ns).children) \o Descendants(Tail(ns))

NodesOfType(type) == LET is(n) == n.type = type IN SelectSeq(Descendants(ast), is)

HasAttr(e, name) == \E k \in 1..Len(e.attrs) : e.attrs[k].name = name

AttrValue(e, name) == (CHOOSE a \in Range(e.attrs) : a.name = name).value

\* the event opens the element documented for inline nodes of the type
IsElementOf(type, e) ==
    /\ e.k = "open"
    /\ CASE type = "bold" -> e.tag = "strong"
         [] type = "italic" -> e.tag = "em"
         [] type = "underline" -> e.tag = "u"
         [] type = "code" -> e.tag = "code" /\ ~HasAttr(e, "class")
         [] type = "verbatim" -> e.tag = "code" /\ HasAttr(e, "class")
                                   /\ AsString(AttrValue(e, "class")) = "verbatim"
         [] type = "strike" -> e.tag = "del"
         [] type = "link" -> e.tag = "a" /\ HasAttr(e, "href")
         [] type = "image" -> e.tag = "img" /\ HasAttr(e, "src") /\ HasAttr(e, "alt")
         [] type = "lineBreak" -> e.tag = "br"

ElementsOf(type, html) == LET is(e) == IsElementOf(type, e) IN SelectSeq(html, is)

DocumentedInlineTypes ==
    {"bold", "italic", "underline", "code", "verbatim", "strike", "link", "image",
     "lineBreak"}

\* C6: when the document is rendered, the body holds, for each kind of inline
\* node, at least as many of the elements documented for that kind as the
\* document has nodes of the kind, whatever blocks contain them
C6_InlineRenderedInEveryBlock ==
    pc = "done" =>
        \A type \in DocumentedInlineTypes :
            Len(ElementsOf(type, rt.bodyHtml)) >= Len(NodesOfType(type))

----------------------------------------------------------------------------
(* C7: referenced footnotes get a footnotes block after the body *)

\* the elements of a sequence, each kept at its first occurrence
RECURSIVE Distinct(_)
Distinct(s) ==
    IF s = <<>> THEN <<>>
    ELSE LET rest == Distinct(SubSeq(s, 1, Len(s) - 1))
         IN  IF s[Len(s)] \in Range(rest) THEN rest ELSE Append(rest, s[Len(s)])

\* the references of the footnote nodes in the order of the document walk
ReferencedFootnotes ==
    LET fs == NodesOfType("footnote")
    IN  Distinct([k \in 1..Len(fs) |-> fs[k].properties.ref])

\* the ids of the <li id=...> elements of the output, in order
FootnoteItemIds(html) ==
    LET is(e) == e.k = "open" /\ e.tag = "li" /\ HasAttr(e, "id")
        items == SelectSeq(html, is)
    IN  [k \in 1..Len(items) |-> AsString(AttrValue(items[k], "id"))]

IsFootnotesBlock(e) ==
    /\ e.k = "open" /\ e.tag = "div"
    /\ HasAttr(e, "class") /\ AsString(AttrValue(e, "class")) = "footnotes"

BodyBlockTags == {"h1", "h2", "h3", "h4", "h5", "h6", "p", "ul", "ol", "table", "blockquote"}

\* C7: when a document with a footnote reference in some block is rendered, the
\* output has one footnotes block, no block of the body comes after it, and its
\* <li> elements are those of the referenced footnotes, one each, in the order
\* of first encounter
C7_FootnotesBlockAfterBody ==
    (pc = "done" /\ ReferencedFootnotes # <<>>) =>
        /\ \E p \in 1..Len(out.html) :
              /\ IsFootnotesBlock(out.html[p])
              /\ \A q \in 1..Len(out.html) : IsFootnotesBlock(out.html[q]) => q = p
              /\ \A q \in 1..(p - 1) : ~(out.html[q].k = "open" /\ out.html[q].tag = "li"
                                           /\ HasAttr(out.html[q], "id"))
              /\ \A q \in (p + 1)..Len(out.html) :
                    ~(out.html[q].k = "open" /\ out.html[q].tag \in BodyBlockTags \ {"ol"})
        /\ FootnoteItemIds(out.html) =
               [k \in 1..Len(ReferencedFootnotes) |->
                   "fn-" \o AsString(escapeHtml(ReferencedFootnotes[k]))]

----------------------------------------------------------------------------
(* C8: the table of contents stops at the configured depth *)

\* the positions of the entries of a table of contents
TocEntries(html) == {p \in 1..Len(html) : html[p].k = "open" /\ html[p].tag = "li"}

\* the number of <ul> elements open at position p
NestingAt(html, p) ==
    Cardinality({q \in 1..(p - 1) : html[q].k = "open" /\ html[q].tag = "ul"})
    - Cardinality({q \in 1..(p - 1) : html[q].k = "close" /\ html[q].tag = "ul"})

\* the target of the entry at position p: the link follows the <li>
EntryHref(html, p) == AsString(AttrValue(html[p + 1], "href"))

\* the levels of the heading lines of the content, in order
HeadingLineLevels ==
    LET is(line) == HeadingMatches(trim(line))
        hs == SelectSeq(ContentLines, is)
    IN  [k \in 1..Len(hs) |-> HeadingLevel(trim(hs[k]))]

\* the tags of the heading elements of the body: those with an id
BodyHeadingTags(html) ==
    LET is(e) == e.k = "open" /\ e.tag \in {HeadingTag(k) : k \in 1..6} /\ HasAttr(e, "id")
        hs == SelectSeq(html, is)
    IN  [k \in 1..Len(hs) |-> hs[k].tag]

\* a table of contents was generated with a depth that is a number
TocGenerated == pc = "done" /\ out.tocHtml # <<>> /\ ~tocDepth(metadata).nan

\* C8: in the table of contents generated with depth d, every entry is the
\* entry of a heading of level <= d and stands inside at most d nested <ul>
\* elements; and every heading line of the document, whatever its level, has
\* its heading element in the output
C8_TocWithinDepth ==
    /\ TocGenerated =>
          \A p \in TocEntries(out.tocHtml) :
              /\ \E k \in 1..Len(rt.context.headings) :
                    /\ rt.context.headings[k].level <= tocDepth(metadata).n
                    /\ EntryHref(out.tocHtml, p) = "#" \o AsString(rt.context.headings[k].id)
              /\ NestingAt(out.tocHtml, p) <= tocDepth(metadata).n
    /\ pc = "done" =>
          BodyHeadingTags(out.html) =
              [k \in 1..Len(HeadingLineLevels) |-> HeadingTag(Min(HeadingLineLevels[k], 6))]

\* a table of contents with an entry nested as deep as the depth allows, of a
\* document that has a heading deeper than that
C8_Witness ==
    /\ TocGenerated
    /\ \E p \in TocEntries(out.tocHtml) : NestingAt(out.tocHtml, p) = tocDepth(metadata).n
    /\ \E k \in 1..Len(rt.context.headings) :
          rt.context.headings[k].level > tocDepth(metadata).n
    /\ Len(BodyHeadingTags(out.html)) = Len(rt.context.headings)

----------------------------------------------------------------------------
(* C9: heading levels are clamped to 1..6 *)

\* the levels of the heading records kept for the table of contents
RecordedLevels == [k \in 1..Len(rt.context.headings) |-> rt.context.headings[k].level]

\* C9: every level in a heading record lies in 1..6; and when the document is
\* rendered, the heading line with n asterisks has the element <hk> and the
\* record level k, with k = min(n, 6)
C9_HeadingLevelClamped ==
    /\ \A k \in 1..Len(RecordedLevels) : RecordedLevels[k] \in 1..6
    /\ pc = "done" =>
          /\ BodyHeadingTags(out.html) =
                 [k \in 1..Len(HeadingLineLevels) |-> "h" \o ToString(Min(HeadingLineLevels[k], 6))]
          /\ RecordedLevels = [k \in 1..Len(HeadingLineLevels) |-> Min(HeadingLineLevels[k], 6)]

\* a rendered document with a heading line of more than six asterisks
C9_Witness ==
    /\ pc = "done"
    /\ \E k \in 1..Len(HeadingLineLevels) :
          HeadingLineLevels[k] > 6 /\ BodyHeadingTags(out.html)[k] = "h6" /\ RecordedLevels[k] = 6

----------------------------------------------------------------------------
(* C10: toc:nil turns the table of contents off *)

\* the consumed lines (0-based) the loop of extractMetadata took as a #+OPTIONS:
\* line
OptionsLines ==
    {j \in 0..(contentStartLine - 1) :
        /\ ~ExtractAfter(lines, j).inPropertyDrawer
        /\ MetaMatches(trim(lines[j + 1]))
        /\ MetaKey(trim(lines[j + 1])) = OPTIONS}

OptionsValue(j) == MetaValue(trim(lines[j + 1]))

TocNil == <<"t", "o", "c", ":", "n", "i", "l">>

\* the #+OPTIONS: lines that set toc
TocSettingLines == {j \in OptionsLines : "toc" \in DOMAIN parseOptions(OptionsValue(j))}

\* the last toc setting of the front-matter is toc:nil
LastTocIsNil ==
    /\ TocSettingLines # {}
    /\ LET last == CHOOSE j \in TocSettingLines : \A k \in TocSettingLines : k <= j
       IN  parseOptions(OptionsValue(last))["toc"] = Bool(FALSE)

\* the output has a <nav class="toc"> element
HasTocNav(html) ==
    \E p \in 1..Len(html) :
        /\ html[p].k = "open" /\ html[p].tag = "nav"
        /\ HasAttr(html[p], "class") /\ AsString(AttrValue(html[p], "class")) = "toc"

\* C10 as stated: when the front-matter has a #+OPTIONS: line with toc:nil, the
\* output has no <nav class="toc"> element
C10_NoTocWhenNil ==
    (pc = "done" /\ \E j \in OptionsLines : indexOf(OptionsValue(j), TocNil, 0) >= 0) =>
        ~HasTocNav(out.html)

\* C10: when the last toc setting of the #+OPTIONS: lines of the front-matter
\* is toc:nil, whatever headings the body has, no table of contents is
\* generated and the output has no <nav class="toc"> element
C10_NoTocWhenLastNil ==
    (pc = "done" /\ LastTocIsNil) => (out.tocHtml = <<>> /\ ~HasTocNav(out.html))

\* a document with headings rendered unsanitized, whose toc:nil comes after
\* another toc setting
C10_Witness ==
    /\ pc = "done"
    /\ LastTocIsNil
    /\ Cardinality(TocSettingLines) > 1
    /\ Len(rt.context.headings) > 0
    /\ ~options.sanitize

----------------------------------------------------------------------------
(* C11: the rendering of the worked example *)

ExampleBody ==
    "<h1 id=\"a\">A</h1>\n<p>Some <strong>bold</strong> and <em>italic</em> text.</p>\n"

ExampleToc ==
    "<nav class=\"toc\"><h2>Table of Contents</h2><ul><li><a href=\"#a\">A</a></li></ul></nav>\n"

\* C11 as stated: parsing and rendering the document  #+TITLE: T / * A /
\* Some *bold* and /italic/ text.  produces exactly the heading and the
\* paragraph, with no table of contents before them and no footnotes block
\* after them
C11_ExampleRendersBodyOnly ==
    (pc = "done" /\ lines = ExampleDocument) => Serialize(out.html) = ExampleBody

\* C11: parsing and rendering the document  #+TITLE: T / * A / Some *bold* and
\* /italic/ text.  produces a body that is exactly the heading and the
\* paragraph, preceded by the table of contents made of the entry of heading A
\* and followed by no footnotes block; the unsanitized output is exactly the
\* table of contents followed by the body
C11_ExampleRendersTocAndBody ==
    (pc = "done" /\ lines = ExampleDocument) =>
        /\ Serialize(rt.bodyHtml) = ExampleBody
        /\ Serialize(out.tocHtml) = ExampleToc
        /\ out.footnotesHtml = <<>>
        /\ ~options.sanitize => Serialize(out.html) = ExampleToc \o ExampleBody

\* the worked example rendered without sanitizing
C11_Witness ==
    pc = "done" /\ lines = ExampleDocument /\ ~options.sanitize /\ out.html # <<>>

----------------------------------------------------------------------------
(* C12: the inline parser on the plain text of its own output *)

\* the nodes with the markup removed: the text of every node, in document order
RECURSIVE PlainText(_)
PlainText(ns) ==
    IF ns = <<>> THEN <<>>
    ELSE LET n == Head(ns)
         IN  (IF n.type = "text" THEN n.value ELSE PlainText(n.children))
             \o PlainText(Tail(ns))

OnlyTextLeaves(ns) == \A k \in 1..Len(ns) : ns[k].type = "text"

\* C12: for every text, parseInlineMarkup applied to the plain text of its own
\* output (the markup removed, the text of every node kept) yields text leaves
\* only
C12_ReparseYieldsTextOnly ==
    pc = "inlineDone" => OnlyTextLeaves(parseInlineMarkup(PlainText(nodes)))

----------------------------------------------------------------------------
(* C13: the node of a link span *)

\* the url ends in one of the image extensions, whatever the case of its letters
EndsInImageExtension(url) ==
    \E k \in 1..Len(url) :
        /\ url[k] = "."
        /\ toLowerCase(SubSeq(url, k + 1, Len(url)))
             \in {<<"p", "n", "g">>, <<"j", "p", "g">>, <<"j", "p", "e", "g">>, <<"g", "i", "f">>, <<"s", "v", "g">>, <<"w", "e", "b", "p">>}

TextLeaves(s) == IF s = <<>> THEN <<>> ELSE <<createTextNode(s)>>

\* the node the span of this url and description is to give: the description
\* is the url when none is given or when it is empty
SpanNode(url, d) ==
    LET description == IF d.given /\ d.value # <<>> THEN d.value ELSE url
    IN  IF EndsInImageExtension(url)
        THEN createNode("image", [src |-> url, alt |-> description], <<>>)
        ELSE createNode("link", [href |-> url], <<createTextNode(description)>>)

\* C13: for every [[url]] or [[url][description]] span, parseInlineMarkup emits
\* an image leaf with src = url and alt = description exactly when the url ends
\* in the extension png, jpg, jpeg, gif, svg or webp, in any case of letters,
\* and otherwise a link node with href = url and a single text child holding
\* the description, or the url when no description is given
C13_LinkOrImage ==
    pc = "inlineDone" =>
        \A before \in {w \in LinkWords : startsWith(text, w)} :
            \A after \in {w \in LinkWords : endsWith(text, w)} :
                \A url \in LinkUrls, d \in LinkDescriptions :
                    text = before \o LinkSpan(url, d) \o after =>
                        nodes = TextLeaves(before) \o <<SpanNode(url, d)>>
                                \o TextLeaves(after)

\* an image span whose extension is in upper case and which has a description
\* has been parsed
C13_Witness ==
    /\ pc = "inlineDone"
    /\ text = LinkSpan(<<"h", "t", "t", "p", "s", ":", "/", "/", "x", ".", "t", "e", "s", "t", "/", "a", ".", "P", "N", "G">>, Description(<<"A", "l", "t">>))
    /\ Len(nodes) = 1
    /\ nodes[1].type = "image"

----------------------------------------------------------------------------
(* C14: separator rows of a table *)

\* the line, without the white space around it, matches ^\|[-+:| ]+\|$
MatchesSeparatorPattern(line) ==
    LET row == trim(line)
    IN  /\ Len(row) >= 3
        /\ Head(row) = "|"
        /\ row[Len(row)] = "|"
        /\ \A k \in 2..(Len(row) - 1) : row[k] \in {"-", "+", ":", "|", " "}

IsTableLine(line) == trim(line) # <<>> /\ Head(trim(line)) = "|"

\* the body lines that are table rows and do not match the separator pattern
DataRowLines ==
    {j \in 1..Len(ContentLines) :
        IsTableLine(ContentLines[j]) /\ ~MatchesSeparatorPattern(ContentLines[j])}

\* the texts of the cells of each row of a table
RowTexts(table) ==
    [r \in 1..Len(table.children) |->
        [c \in 1..Len(table.children[r].children) |->
            PlainText(table.children[r].children[c].children)]]

\* C14 as stated: parsing the table |a|b| / |-|-| / |1|2| yields a table with
\* exactly one data row, whose cells are 1 and 2
C14_ExampleHasOneRow ==
    (pc = "parsed" /\ lines = ExampleTable) =>
        /\ Len(ast) = 1
        /\ ast[1].type = "table"
        /\ RowTexts(ast[1]) = << <<<<"1">>, <<"2">>>> >>

\* C14: parsing the table |a|b| / |-|-| / |1|2| yields a table of two rows, of
\* cells a, b and of cells 1, 2, the separator row giving none; in general the
\* table rows of the tree are as many as the table lines that do not match the
\* separator pattern, so that a row matching it never produces a tableRow node
C14_SeparatorRowsSkipped ==
    pc = "parsed" =>
        /\ Len(NodesOfType("tableRow")) = Cardinality(DataRowLines)
        /\ lines = ExampleTable =>
              /\ Len(ast) = 1
              /\ ast[1].type = "table"
              /\ RowTexts(ast[1]) = << <<<<"a">>, <<"b">>>>, <<<<"1">>, <<"2">>>> >>

\* the table of the documentation has been parsed
C14_Witness ==
    /\ pc = "parsed"
    /\ lines = ExampleTable
    /\ Len(NodesOfType("table")) = 1

----------------------------------------------------------------------------
(* C15: a list is the run of the items of the indent of its first item *)

\* the token at 0-based index k is a list item of the indent of the item at i
SameIndentItem(i, k) ==
    tokens[k + 1].type = "LIST_ITEM" /\ tokens[k + 1].indent = tokens[i + 1].indent

\* the index of the last token of the maximal run of list items of the indent
\* of the item at i that starts at i
LastOfRun(i) ==
    CHOOSE e \in i..(Len(tokens) - 1) :
        /\ \A k \in i..e : SameIndentItem(i, k)
        /\ e + 1 < Len(tokens) => ~SameIndentItem(i, e + 1)

ListDispatched ==
    /\ pc = "parseTokens"
    /\ pc' = "parseTokens"
    /\ pt.i < Len(tokens)
    /\ tokens[pt.i + 1].type = "LIST_ITEM"

\* C15: parseList collects exactly the maximal run of consecutive list items
\* whose indent is the indent of the opening item: it pushes one list node with
\* one listItem per token of the run, in order, an item of another indent ends
\* the list and is left to the next iteration, and the ordered flag of the list
\* is the one of the opening item
C15_ListIsRunOfSameIndent ==
    [][ListDispatched =>
          LET e == LastOfRun(pt.i)
              list == pt'.nodes[Len(pt'.nodes)]
          IN  /\ pt'.i = e + 1
              /\ Len(pt'.nodes) = Len(pt.nodes) + 1
              /\ list.type = "list"
              /\ list.properties.ordered = tokens[pt.i + 1].properties.ordered
              /\ Len(list.children) = e - pt.i + 1
              /\ \A k \in 1..Len(list.children) :
                    /\ list.children[k].type = "listItem"
                    /\ list.children[k].children = parseInlineMarkup(tokens[pt.i + k].value)]_vars

\* an unordered item, an item indented by one more space and an ordered item
\* of no indent have been parsed into three lists
C15_Witness ==
    /\ pc = "parsed"
    /\ lines = <<ListLine, DeeperListLine, <<"1", ".", " ", "n">>>>
    /\ Len(ast) = 3
    /\ \A k \in 1..3 : ast[k].type = "list" /\ Len(ast[k].children) = 1
    /\ ast[3].properties.ordered

----------------------------------------------------------------------------
(* C16: a generic block is closed by the end line of its type *)

\* the type of the #+BEGIN_<TYPE> line at the 0-based index i of the body
BlockTypeAt(i) == BlockMarkerType(trim(ContentLines[i + 1]), BEGIN_)

\* the content lines after line i that are the #+END_<TYPE> line of the type
\* of the block line i opens
MatchingEndLinesAfter(i) ==
    {j \in (i + 1)..(Len(ContentLines) - 1) :
        /\ BlockMarkerMatches(trim(ContentLines[j + 1]), END_)
        /\ BlockMarkerType(trim(ContentLines[j + 1]), END_) = BlockTypeAt(i)}

\* parseTokens is about to dispatch a #+BEGIN_<TYPE> line that a later
\* #+END_<TYPE> line of the same type closes
BlockDispatched ==
    /\ pc = "parseTokens"
    /\ pt.i < Len(tokens)
    /\ tokens[pt.i + 1].type = "BLOCK_START"
    /\ MatchingEndLinesAfter(pt.i) # {}

FirstMatchingEndLineAfter(i) ==
    CHOOSE j \in MatchingEndLinesAfter(i) : \A k \in MatchingEndLinesAfter(i) : j <= k

\* C16: the block opened by a #+BEGIN_<TYPE> line is closed only by the
\* #+END_<TYPE> line of the same type: the parser consumes the tokens through
\* that line, a block-end line of another type inside the block not ending it,
\* and the lines up to it are the inline-parsed content of the block
C16_BlockClosedByMatchingEnd ==
    [][BlockDispatched =>
          LET node == pt'.nodes[Len(pt'.nodes)]
              end == FirstMatchingEndLineAfter(pt.i)
          IN  /\ pt'.i = end + 1
              /\ node.children =
                     parseInlineMarkup(join(SubSeq(ContentLines, pt.i + 2, end), NewLine))]_vars

----------------------------------------------------------------------------
(* C17: tokenize gives one token per line *)

\* the lines of the text tokenize is given: a text always has one line at least
TokenizedLines == IF ContentLines = <<>> THEN <<<<>>>> ELSE ContentLines

\* the number of white space characters the line starts with
LeadingWhitespace(line) ==
    IF \A k \in 1..Len(line) : line[k] \in SpaceChars THEN Len(line)
    ELSE (CHOOSE k \in 1..Len(line) :
              line[k] \notin SpaceChars /\ \A j \in 1..(k - 1) : line[j] \in SpaceChars) - 1

\* the line matches none of the rules of the lexer
NoSpecificRule(line) ==
    LET trimmed == trim(line)
    IN  /\ trimmed # <<>>
        /\ ~HeadingMatches(trimmed)
        /\ ~startsWithIgnoreCase(trimmed, BEGIN_SRC)
        /\ ~startsWithIgnoreCase(trimmed, END_SRC)
        /\ ~BlockMarkerMatches(trimmed, BEGIN_)
        /\ ~BlockMarkerMatches(trimmed, END_)
        /\ ~DrawerStartMatches(trimmed)
        /\ ~startsWith(trimmed, <<"|">>)
        /\ ~ListMatches(trimmed)
        /\ ~ShortcodeMatches(trimmed)

\* C17: tokenize returns exactly one token per line of its input, in the order
\* of the lines: the i-th token has the line index i and the indent of the
\* i-th line, its number of leading white space characters, and a line that
\* matches no rule becomes a TEXT token that carries the line untrimmed
C17_OneTokenPerLine ==
    pc = "parseTokens" =>
        /\ Len(tokens) = Len(TokenizedLines)
        /\ \A k \in 1..Len(tokens) :
              /\ tokens[k].type \in TokenTypes
              /\ tokens[k].line = k - 1
              /\ tokens[k].indent = LeadingWhitespace(TokenizedLines[k])
              /\ tokens[k].type = "TEXT" <=> NoSpecificRule(TokenizedLines[k])
              /\ tokens[k].type = "TEXT" => tokens[k].value = TokenizedLines[k]

\* two lines have been tokenized, the second an indented line of text that
\* ends with a space
C17_Witness ==
    /\ pc = "parseTokens"
    /\ Len(lines) = 2
    /\ lines[2] = <<" ", "	", "x", " ">>
    /\ tokens[2].type = "TEXT"
    /\ tokens[2].indent = 2

----------------------------------------------------------------------------
(* C18: the highlighter of the process is created once *)

\* C18: across every interleaving of calls of highlightCode, those that start
\* while the first is awaiting getHighlighter included, the highlighter of the
\* process is created at most once and, once set, is never replaced or reset
C18_HighlighterCreatedOnce ==
    [][/\ Cardinality(Created') <= 1
       /\ highlighter # NoHighlighter => highlighter' = highlighter]_vars

----------------------------------------------------------------------------
(* C19: highlightCode never rejects *)

\* the escaped <pre><code> block of the code
FallbackOf(code) == "<pre><code>" \o AsString(escapeHtmlBasic(code)) \o "</code></pre>"

Unsupported(language) == language # <<>> /\ AsString(language) \notin HighlighterLangs

\* C19: no call of highlightCode rejects, whatever step of it fails, and a call
\* for a language the highlighter does not support resolves to the escaped
\* <pre><code> block of the code
C19_HighlightNeverRejects ==
    \A c \in 1..MaxCalls :
        /\ hc[c].pc # "rejected"
        /\ (hc[c].pc = "resolved" /\ Unsupported(hc[c].language)) =>
              Serialize(hc[c].result) = FallbackOf(hc[c].code)

----------------------------------------------------------------------------
(* C20: calls of renderToHtml that run together do not disturb each other *)

\* the walk of renderToHtml over the children from the k-th on, run alone
RECURSIVE WalkAlone(_, _, _, _, _)
WalkAlone(children, k, ctx, bodyHtml, opts) ==
    IF k > Len(children) THEN [ctx |-> ctx, bodyHtml |-> bodyHtml]
    ELSE LET r == renderNode(children[k],
                             [options |-> opts, footnotes |-> ctx.footnotes,
                              footnoteCounter |-> ctx.footnoteCounter,
                              headings |-> ctx.headings])
         IN  WalkAlone(children, k + 1, r.ctx, bodyHtml \o r.html, opts)

\* what the call returns when no other call runs
RenderAlone(call) ==
    LET w == WalkAlone(call.ast, 1, FreshContext, <<>>, call.options)
    IN  RenderResult(w.ctx, w.bodyHtml, call.metadata, call.options)

\* C20: every call of renderToHtml starts with its own empty heading list,
\* empty footnote map and footnote counter 1, and whatever the interleaving of
\* two calls at their awaits, the table of contents, the footnotes and their
\* numbering, and the html of each call are what the call gives when run alone
C20_RenderCallsIndependent ==
    \A c \in RenderCalls :
        /\ (renders[c].pc = "renderToHtml" /\ renders[c].k = 1) =>
              renders[c].context = FreshContext
        /\ renders[c].pc = "done" =>
              LET alone == RenderAlone(renders[c])
              IN  /\ renders[c].out.tocHtml = alone.tocHtml
                  /\ renders[c].out.footnotesHtml = alone.footnotesHtml
                  /\ renders[c].out.html = alone.html

\* the second call has returned a table of contents and footnotes while the
\* first call, which has a footnote of its own, stands between its two nodes
C20_Witness ==
    /\ pc = "renderCalls"
    /\ renders[1].pc = "renderToHtml"
    /\ renders[1].k = 2
    /\ Len(renders[1].ast) = 2
    /\ Len(renders[1].context.footnotes) = 1
    /\ renders[2].pc = "done"
    /\ renders[2].out.tocHtml # <<>>
    /\ renders[2].out.footnotesHtml # <<>>

----------------------------------------------------------------------------
(* C21: the kind of a token is the one of the first rule the line matches *)

\* the kinds of token in the order the rules are tried
RuleOrder ==
    <<"BLANK", "HEADING", "CODE_BLOCK_START", "CODE_BLOCK_END", "BLOCK_START", "BLOCK_END",
      "DRAWER_START", "DRAWER_END", "TABLE_ROW", "LIST_ITEM", "SHORTCODE", "TEXT">>

\* s has the prefix, whatever the case of its letters, and then a word
\* character at least when the rule asks for one
HasMarker(s, prefix, word) ==
    /\ Len(s) >= Len(prefix) + (IF word THEN 1 ELSE 0)
    /\ toUpperCase(SubSeq(s, 1, Len(prefix))) = prefix
    /\ word => s[Len(prefix) + 1] \in WordChars

\* the trimmed line matches the rule of the kind, taken alone
RuleMatches(kind, s) ==
    CASE kind = "BLANK" -> s = <<>>
      [] kind = "HEADING" ->
            \E n \in 1..Len(s) :
                /\ \A k \in 1..n : s[k] = "*"
                /\ n < Len(s) /\ s[n + 1] \in SpaceChars
      [] kind = "CODE_BLOCK_START" -> HasMarker(s, <<"#", "+", "B", "E", "G", "I", "N", "_", "S", "R", "C">>, FALSE)
      [] kind = "CODE_BLOCK_END" -> HasMarker(s, <<"#", "+", "E", "N", "D", "_", "S", "R", "C">>, FALSE)
      [] kind = "BLOCK_START" -> HasMarker(s, <<"#", "+", "B", "E", "G", "I", "N", "_">>, TRUE)
      [] kind = "BLOCK_END" -> HasMarker(s, <<"#", "+", "E", "N", "D", "_">>, TRUE)
      [] kind = "DRAWER_START" ->
            /\ Len(s) >= 3
            /\ Head(s) = ":" /\ s[Len(s)] = ":"
            /\ \A k \in 2..(Len(s) - 1) : s[k] \in WordChars
      [] kind = "DRAWER_END" -> s = <<":", "E", "N", "D", ":">>
      [] kind = "TABLE_ROW" -> s # <<>> /\ Head(s) = "|"
      [] kind = "LIST_ITEM" ->
            \E n \in 1..Len(s) :
                /\ \/ n = 1 /\ s[1] \in {"-", "+", "*"}
                   \/ /\ n >= 2
                      /\ \A k \in 1..(n - 1) : s[k] \in Digits
                      /\ s[n] \in {".", ")"}
                /\ n < Len(s) /\ s[n + 1] \in SpaceChars
      [] kind = "SHORTCODE" ->
            /\ Len(s) >= 3 /\ SubSeq(s, 1, 3) = <<"{", "{", "<">>
            /\ \E a \in 4..Len(s), b \in 4..Len(s) :
                  /\ a <= b
                  /\ \A k \in 4..(a - 1) : s[k] \in SpaceChars
                  /\ \A k \in a..b : s[k] \in WordChars
                  /\ \E e \in (b + 1)..(Len(s) - 2) : SubSeq(s, e, e + 2) = <<">", "}", "}">>
      [] kind = "TEXT" -> TRUE

RulesMatching(s) == {r \in 1..Len(RuleOrder) : RuleMatches(RuleOrder[r], s)}

\* the kind of the first rule, in the order of the rules, the line matches
FirstRule(s) == RuleOrder[CHOOSE r \in RulesMatching(s) : \A q \in RulesMatching(s) : r <= q]

\* C21: the kind of the token of every line is the kind of the first rule the
\* trimmed line matches in the order blank, heading, code-fence open,
\* code-fence close, block open, block close, drawer open, drawer close, table
\* row, list item, shortcode, TEXT: a line that matches several rules gets the
\* earliest
C21_FirstMatchingRule ==
    pc = "parseTokens" =>
        \A k \in 1..Len(tokens) : tokens[k].type = FirstRule(trim(TokenizedLines[k]))

\* the lines :END: and * H, which match two rules each beside TEXT, have been
\* tokenized
C21_Witness ==
    /\ pc = "parseTokens"
    /\ lines = <<EndDrawerLine, HeadingLine>>
    /\ Cardinality(RulesMatching(EndDrawerLine)) = 3
    /\ Cardinality(RulesMatching(HeadingLine)) = 3
    /\ tokens[1].type = "DRAWER_START"
    /\ tokens[2].type = "HEADING"

----------------------------------------------------------------------------
(* C22: the cells of a table row *)

\* the fields of a row between its bars, without the empty field before the
\* leading bar and the empty field after a trailing bar
FieldsOf(line) ==
    LET parts == split(trim(line), <<"|">>)
        inner == Tail(parts)
        kept == IF inner # <<>> /\ inner[Len(inner)] = <<>>
                THEN SubSeq(inner, 1, Len(inner) - 1)
                ELSE inner
    IN  [k \in 1..Len(kept) |-> trim(kept[k])]

\* the body lines that are table rows and do not match the separator pattern,
\* in their order
DataRows ==
    LET isData(line) == IsTableLine(line) /\ ~MatchesSeparatorPattern(line)
    IN  SelectSeq(ContentLines, isData)

CellTexts(row) == [c \in 1..Len(row.children) |-> PlainText(row.children[c].children)]

\* C22: the tableRow of every table row that is not a separator, the rows
\* written without a trailing bar included, has one tableCell per field
\* between the bars, in order: only the empty fields outside the leading and
\* the trailing bar are dropped
C22_OneCellPerField ==
    pc = "parsed" =>
        LET rows == NodesOfType("tableRow")
        IN  /\ Len(rows) = Len(DataRows)
            /\ \A k \in 1..Len(rows) : CellTexts(rows[k]) = FieldsOf(DataRows[k])

----------------------------------------------------------------------------
(* C23: where the content starts *)

\* the line is not blank and begins with neither # nor :
IsContentLine(line) ==
    LET s == trim(line)
    IN  s # <<>> /\ ~startsWith(s, <<"#">>) /\ ~startsWith(s, <<":">>)

\* the index (0-based) of the first such line, the number of lines without one
FirstContentLine ==
    LET found == {j \in 0..(Len(lines) - 1) : IsContentLine(lines[j + 1])}
    IN  IF found = {} THEN Len(lines)
        ELSE CHOOSE j \in found : \A k \in found : j <= k

\* C23: when extractMetadata has returned, contentStartLine is the index of the
\* first line that is not blank and begins with neither # nor : (the number of
\* lines without such a line), so that no such line is consumed as
\* front-matter, and it lies between 0 and the number of lines
C23_ContentStartsAtFirstContentLine ==
    pc # "extractMetadata" =>
        /\ contentStartLine = FirstContentLine
        /\ 0 <= contentStartLine /\ contentStartLine <= Len(lines)

----------------------------------------------------------------------------
(* C24: parseTokens terminates *)

EndMarkerTypes == {"CODE_BLOCK_END", "BLOCK_END", "DRAWER_END"}

\* a step of parseTokens: while the cursor is before the end of the tokens the
\* step is an iteration, which moves the cursor forward, at most one past the
\* end, and pushes at most one node (the tokens from the old cursor up to the
\* new one are the tokens of this dispatch and of no other); with the cursor at
\* or past the end the step is the return
CursorAdvances ==
    pc = "parseTokens" =>
        IF pt.i < Len(tokens)
        THEN /\ pc' = "parseTokens"
             /\ pt.i < pt'.i
             /\ pt'.i <= Len(tokens) + 1
             /\ Len(pt'.nodes) <= Len(pt.nodes) + 1
        ELSE pc' = "parsed" /\ ast' = pt.nodes

\* C24: parseTokens terminates on every token sequence, those with openers
\* left open and with stray end markers included: every iteration of its loop
\* moves the cursor strictly forward and never past the end by more than one,
\* so that each token is consumed by one dispatch and the distance to the end
\* shrinks until the loop is left
C24_ParseTokensTerminates == [][CursorAdvances]_vars

\* parseTokens has returned with the cursor past the end, an opener having
\* consumed the rest of the tokens, after it went over a stray end marker
C24_Witness ==
    /\ pc = "parsed"
    /\ pt.i = Len(tokens) + 1
    /\ \E k \in 1..Len(tokens) :
          /\ tokens[k].type \in EndMarkerTypes
          /\ \A j \in 1..(k - 1) : tokens[j].type = "TEXT"

----------------------------------------------------------------------------
(* C25: the scan of parseInlineMarkup *)

\* the locals of parseInlineMarkup at the head of every iteration of its loop,
\* the last being the locals the loop is left with
RECURSIVE ScanTrace(_, _)
ScanTrace(s, st) ==
    IF st.i >= Len(s) THEN <<st>>
    ELSE <<st>> \o ScanTrace(s, InlineIteration(s, st.i, st.current, st.nodes))

\* an opener stands at index i and the rest of the text has no closer for it
UnmatchedOpenerAt(s, i) ==
    \/ /\ CharAt(s, i) \in EmphasisMarkers
       /\ CharAt(s, i + 1) # " "
       /\ indexOf(s, <<CharAt(s, i)>>, i + 1) = -1
    \/ /\ substring(s, i, i + 2) = <<"[", "[">>
       /\ indexOf(s, <<"]", "]">>, i + 2) = -1
    \/ /\ substring(s, i, i + 4) = <<"[", "f", "n", ":">>
       /\ indexOf(s, <<"]">>, i + 4) = -1

\* C25: parseInlineMarkup ends on every text with its scan index strictly
\* increasing at every iteration; an iteration at an opener without a closer
\* pushes no markup node, moves to the next character and keeps the character
\* of the opener, which is found at the head of a text node of the result
C25_ScanAdvances ==
    pc = "inlineDone" =>
        LET tr == ScanTrace(text, Scan(0, <<>>, <<>>))
            last == tr[Len(tr)]
        IN  /\ nodes = Flush(last.nodes, last.current)
            /\ \A k \in 1..(Len(tr) - 1) :
                  LET st == tr[k]
                      nx == tr[k + 1]
                  IN  /\ st.i < nx.i
                      /\ nx.i <= Len(text) + 1
                      /\ UnmatchedOpenerAt(text, st.i) =>
                            /\ nx.i = st.i + 1
                            /\ nx.nodes = Flush(st.nodes, st.current)
                            /\ nx.current = <<CharAt(text, st.i)>>
                            /\ Len(nodes) > Len(nx.nodes)
                            /\ nodes[Len(nx.nodes) + 1].type = "text"
                            /\ Head(nodes[Len(nx.nodes) + 1].value) = CharAt(text, st.i)

\* a text was parsed whose scan met an opener without a closer after a span
\* that closed
C25_Witness ==
    /\ pc = "inlineDone"
    /\ LET tr == ScanTrace(text, Scan(0, <<>>, <<>>))
       IN  \E k \in 2..(Len(tr) - 1) :
              /\ UnmatchedOpenerAt(text, tr[k].i)
              /\ tr[k].i > tr[k - 1].i + 1

----------------------------------------------------------------------------
(* C26: the lists of the table of contents are well nested *)

\* the number of <ul> elements open after the first n events of the HTML
RECURSIVE OpenLists(_, _)
OpenLists(html, n) ==
    IF n = 0 THEN 0
    ELSE OpenLists(html, n - 1)
         + (IF html[n].tag = "ul"
            THEN (IF html[n].k = "open" THEN 1 ELSE IF html[n].k = "close" THEN -1 ELSE 0)
            ELSE 0)

\* C26: the HTML generateToc gives for the headings of a document is well
\* nested: no </ul> comes when no <ul> is open, and none is open at </nav>
C26_TocWellNested ==
    pc = "done" /\ out.tocHtml # <<>> =>
        /\ \A n \in 1..Len(out.tocHtml) : OpenLists(out.tocHtml, n) >= 0
        /\ \A n \in 1..Len(out.tocHtml) :
              out.tocHtml[n] = Close("nav") => OpenLists(out.tocHtml, n - 1) = 0

----------------------------------------------------------------------------
(* C27: the sanitizer keeps what the renderer wrote *)

\* the HTML of renderToHtml before the sanitizer
FullHtml == out.tocHtml \o rt.bodyHtml \o out.footnotesHtml

\* C27: every element and every attribute of the HTML the renderer wrote is on
\* the allowlists of the sanitizer, so that a rendering with the sanitizer on
\* returns that HTML as it was written, the <nav class="toc"> element included
C27_RendererWithinAllowlists ==
    pc = "done" /\ options.sanitize =>
        /\ \A n \in 1..Len(FullHtml) :
              LET e == FullHtml[n]
              IN  e.k # "text" =>
                     /\ e.tag \in ALLOWED_TAGS
                     /\ \A a \in 1..Len(e.attrs) : e.attrs[a].name \in ALLOWED_ATTR
        /\ out.html = FullHtml

----------------------------------------------------------------------------
(* C28: the text recorded for a heading *)

\* C28: the text recorded for every heading, which is the label of its entry
\* in the table of contents, is the whole text of the heading, the text inside
\* its bold, italic and link children included, and the id is the slug of
\* that text
C28_HeadingTextIsWholeText ==
    pc = "done" =>
        LET hs == NodesOfType("heading")
            recorded == rt.context.headings
        IN  /\ Len(recorded) = Len(hs)
            /\ \A k \in 1..Len(hs) :
                  /\ recorded[k].text = PlainText(hs[k].children)
                  /\ recorded[k].id = slugify(PlainText(hs[k].children))

----------------------------------------------------------------------------
(* C29: the numbers of the footnote references *)

\* the positions in the body of the <sup> elements of footnote references
ReferencePositions ==
    {n \in 1..Len(rt.bodyHtml) :
        /\ rt.bodyHtml[n].k = "open" /\ rt.bodyHtml[n].tag = "sup"
        /\ HasAttr(rt.bodyHtml[n], "id")}

\* the <li> elements of the footnotes list, in their order
FootnoteItems ==
    LET isItem(e) == e.k = "open" /\ e.tag = "li" /\ HasAttr(e, "id")
    IN  SelectSeq(out.footnotesHtml, isItem)

\* the <li> is the one the reference points at: fn-ref for fnref-ref
ItemOfReference(item, sup) == Tail(AttrValue(item, "id")) = Tail(AttrValue(sup, "id"))

\* C29: the number shown in the <sup> anchor of every rendered footnote
\* reference, a repeated reference to an id included, is the position of the
\* <li> of that reference in the footnotes list, and no number shown is
\* greater than the number of <li> entries
C29_NumberIsPositionInList ==
    pc = "done" =>
        \A n \in ReferencePositions :
            LET shown == AsString(rt.bodyHtml[n + 2].s)
            IN  /\ \E k \in 1..Len(FootnoteItems) :
                      /\ ItemOfReference(FootnoteItems[k], rt.bodyHtml[n])
                      /\ shown = ToString(k)
                /\ \E k \in 1..Len(FootnoteItems) : shown = ToString(k)

----------------------------------------------------------------------------
(* C30: one build at a time in watch mode *)

\* C30: in watch mode at most one run of buildCommand is in progress at any
\* time, and no output file is written by a run while another run, which
\* writes the same files, is in progress
C30_OneBuildAtATime ==
    pc = "watchCommand" =>
        /\ Cardinality(Running) <= 1
        /\ \A n \in 1..Len(watch.log) : watch.log[n].running = {watch.log[n].build}

====
